---------------------------- MODULE Spec2Model ----------------------------
(***************************************************************************)
(* Static determinacy-race detection for Tapir (TapirRaceDetect.cpp).      *)
(*                                                                         *)
(* The analysed procedure is a fixed fork-join procedure with two nested   *)
(* loops and three spawned tasks:                                          *)
(*                                                                         *)
(*   entry:  detach T1 (region R1) -> t1, continue c1                      *)
(*   t1:     (task T1)  reattach c1                                        *)
(*   c1:     sync R1 -> s1                                                 *)
(*   s1:     -> h1                                                         *)
(*   h1:     header of loop 1; detach T2 (region R2) -> t2, continue c2    *)
(*   t2:     (task T2)  -> h2                                              *)
(*   h2:     header of loop 2; detach T3 (region R3) -> t3, continue c3    *)
(*   t3:     (task T3)  reattach c3                                        *)
(*   c3:     latch of loop 2 -> h2, exit -> x2                             *)
(*   x2:     sync R3 -> r2                                                 *)
(*   r2:     reattach c2                                                   *)
(*   c2:     latch of loop 1 -> h1, exit -> x1                             *)
(*   x1:     sync R2 -> end                                                *)
(*   end:    return                                                        *)
(***************************************************************************)
EXTENDS Integers, Sequences, FiniteSets, TLC

VARIABLES
  pc,               \* position of the analysis
  call,             \* the arguments of the call last made, with the oracle
                    \* answers it received and, for a function, its result
  Result,           \* RaceInfo::ResultTy: the race records
  ObjectMRForRace,  \* RaceInfo::ObjectMRTy: per-object Mod/Ref summary
  MPTasks,          \* MaybeParallelTasks::TaskList
  MPTasksInLoop,    \* MaybeParallelTasksInLoopBody::TaskList
  EvalNum,          \* the number of the current sweep of the dataflow
  ToProcess,        \* the spindles the current loop has yet to visit
  Complete,         \* every evaluate of the current sweep returned true
  Env,              \* the run's iteration orders, options and oracle answers
  AccessToObjsMap,  \* RaceInfo::AccessToObjs as addAccess has filled it
  DetachCtxToStackFrame,  \* LambdaABI::DetachCtxToStackFrame
  StackFrames       \* the number of __rts_sf allocas in each function

vars ==
  <<pc, call, Result, ObjectMRForRace, MPTasks, MPTasksInLoop, EvalNum,
    ToProcess, Complete, Env, AccessToObjsMap,
                 DetachCtxToStackFrame, StackFrames>>

\* the functions of the module that the Tapir lowering works on
Functions == {"f", "g", "h"}

---------------------------------------------------------------------------
(* Loops (LoopInfo).  0 stands for "no loop" (a null Loop pointer).        *)

NoLoop == 0

Loops == {1, 2}

LoopParent(l) == IF l = 2 THEN 1 ELSE NoLoop

RECURSIVE LoopDepth(_)
LoopDepth(l) == IF l = NoLoop THEN 0 ELSE 1 + LoopDepth(LoopParent(l))

LoopHeader(l) == IF l = 1 THEN "h1" ELSE "h2"

Blocks ==
  {"entry", "t1", "c1", "s1", "h1", "t2", "h2", "t3", "c3", "x2", "r2",
   "c2", "x1", "end"}

\* LI.getLoopFor(B)
BlockLoop(b) ==
  CASE b \in {"h1", "t2", "r2", "c2"} -> 1
    [] b \in {"h2", "t3", "c3"} -> 2
    [] OTHER -> NoLoop

RECURSIVE LoopContainsLoop(_, _)
\* Loop::contains(const Loop *): l is inner or one of its ancestors
LoopContainsLoop(l, inner) ==
  IF inner = NoLoop THEN FALSE
  ELSE IF inner = l THEN TRUE
  ELSE LoopContainsLoop(l, LoopParent(inner))

\* Loop::contains(const BasicBlock *)
LoopContains(l, b) == LoopContainsLoop(l, BlockLoop(b))

---------------------------------------------------------------------------
(* Tasks and spindles (TaskInfo).                                          *)

RootTask == "root"

Tasks == {"root", "T1", "T2", "T3"}

TaskParent(t) ==
  CASE t = "T1" -> "root"
    [] t = "T2" -> "root"
    [] t = "T3" -> "T2"
    [] OTHER -> "none"

\* Task::getEntry()
TaskEntry(t) ==
  CASE t = "T1" -> "t1"
    [] t = "T2" -> "t2"
    [] t = "T3" -> "t3"
    [] OTHER -> "entry"

\* the sync region of the detach that spawns t ("none" for the root task,
\* which has no detach)
DetachSyncRegion(t) ==
  CASE t = "T1" -> "R1"
    [] t = "T2" -> "R2"
    [] t = "T3" -> "R3"
    [] OTHER -> "none"

\* the block the detach of t continues to
DetachContinue(t) ==
  CASE t = "T1" -> "c1"
    [] t = "T2" -> "c2"
    [] t = "T3" -> "c3"
    [] OTHER -> "none"

\* TI.getTaskFor(B)
TaskFor(b) ==
  CASE b = "t1" -> "T1"
    [] b \in {"t2", "h2", "c3", "x2", "r2"} -> "T2"
    [] b = "t3" -> "T3"
    [] OTHER -> "root"

\* spindles are named after their entry blocks
Spindles ==
  {"entry", "t1", "c1", "s1", "h1", "t2", "h2", "t3", "c3", "r2", "c2", "end"}

\* TI.getSpindleFor(B)
SpindleFor(b) ==
  CASE b = "x2" -> "c3"
    [] b = "x1" -> "c2"
    [] OTHER -> b

\* Spindle::getParentTask()
SpindleTask(s) == TaskFor(s)

\* Spindle::isSharedEH(): the procedure has no exception-handling spindles
IsSharedEH(s) == FALSE

\* the sync region of the sync that ends block b ("none": b does not end in
\* a sync)
SyncRegionOf(b) ==
  CASE b = "c1" -> "R1"
    [] b = "x2" -> "R3"
    [] b = "x1" -> "R2"
    [] OTHER -> "none"

\* Spindle::in_edges(): pairs <<predecessor spindle, incoming block>>
InEdges(s) ==
  CASE s = "t1" -> {<<"entry", "entry">>}
    [] s = "c1" -> {<<"entry", "entry">>, <<"t1", "t1">>}
    [] s = "s1" -> {<<"c1", "c1">>}
    [] s = "h1" -> {<<"s1", "s1">>, <<"c2", "c2">>}
    [] s = "t2" -> {<<"h1", "h1">>}
    [] s = "h2" -> {<<"t2", "t2">>, <<"c3", "c3">>}
    [] s = "t3" -> {<<"h2", "h2">>}
    [] s = "c3" -> {<<"h2", "h2">>, <<"t3", "t3">>}
    [] s = "r2" -> {<<"c3", "x2">>}
    [] s = "c2" -> {<<"h1", "h1">>, <<"r2", "r2">>}
    [] s = "end" -> {<<"c2", "x1">>}
    [] OTHER -> {}

RECURSIVE TaskEncloses(_, _)
\* Task::encloses: t is u or an ancestor of u
TaskEncloses(t, u) ==
  IF u = "none" THEN FALSE
  ELSE IF u = t THEN TRUE
  ELSE TaskEncloses(t, TaskParent(u))

\* TI.encloses(T, B)
Encloses(t, b) == TaskEncloses(t, TaskFor(b))

RECURSIVE TaskDepth(_)
TaskDepth(t) == IF t = RootTask THEN 0 ELSE 1 + TaskDepth(TaskParent(t))

\* TI.getEnclosingTask(B1, B2): the deepest task that encloses both blocks
EnclosingTask(b1, b2) ==
  CHOOSE t \in Tasks :
    /\ Encloses(t, b1) /\ Encloses(t, b2)
    /\ \A u \in Tasks :
         (Encloses(u, b1) /\ Encloses(u, b2)) => TaskDepth(u) <= TaskDepth(t)

\* Task::getSubTaskEnclosing(B): the child task of t that encloses b, or t
SubTaskEnclosing(t, b) ==
  IF \E u \in Tasks : TaskParent(u) = t /\ Encloses(u, b)
  THEN CHOOSE u \in Tasks : TaskParent(u) = t /\ Encloses(u, b)
  ELSE t

\* GetRepSpindleInTask(S, T, TI)
GetRepSpindleInTask(s, t) ==
  LET Encl == SubTaskEnclosing(t, s)
  IN IF Encl = RootTask THEN s ELSE SpindleFor(DetachContinue(Encl))

---------------------------------------------------------------------------
(* Underlying objects, pointers and accesses of the procedure.             *)

Objs ==
  {"stk0", "stk1", "stk2", "heap", "ret", "ld", "argP", "argV",
   "gExt", "gInt", "gTls", "nullc",
   "gConst", "fn", "blockaddr", "cint", "cfp", "cdata", "undef", "tokennone",
   "cexpr"}

\* the class of the Value: AllocaInst, CallBase, another Instruction,
\* Argument, GlobalVariable, ConstantPointerNull (the value of a "tlsaddr"
\* pointer is a call, that of a "phi" pointer another instruction)
ObjKind(o) ==
  CASE o \in {"stk0", "stk1", "stk2"} -> "alloca"
    [] o \in {"heap", "ret"} -> "call"
    [] o = "ld" -> "inst"
    [] o \in {"argP", "argV"} -> "arg"
    [] o \in {"gExt", "gInt", "gTls", "gConst"} -> "global"
    [] o = "nullc" -> "null"
    [] o = "fn" -> "function"
    [] o \in {"blockaddr", "cint", "cfp", "cdata", "undef", "tokennone"} -> "nonptrconst"
    [] o = "cexpr" -> "constexpr"
    [] o = "tls" -> "call"
    [] OTHER -> "inst"

IsInstruction(o) == ObjKind(o) \in {"alloca", "call", "inst"}

\* Instruction::getParent() of an object that is an instruction
ObjBlock(o) ==
  CASE o = "stk1" -> "h1"
    [] o = "heap" -> "h1"
    [] o = "stk2" -> "h2"
    [] OTHER -> "entry"

\* CallBase::returnDoesNotAlias()
ReturnDoesNotAlias(o) == o = "heap"

\* Argument::hasByValAttr() || hasStructRetAttr() || hasInAllocaAttr()
ArgPrecludesRace(o) == o = "argV"

\* GlobalVariable::isConstant()
GlobalIsConstant(o) == o = "gConst"

\* IsNonPtrConst: a block address, ConstantInt, ConstantFP, null pointer
\* constant, ConstantDataSequential, undef or token none
IsNonPtrConst(o) == ObjKind(o) \in {"nonptrconst", "null"}

\* GlobalValue::isThreadLocal()
GlobalIsThreadLocal(o) == o = "gTls"

\* isIdentifiedObject(V): an alloca, a global, a call whose result does not
\* alias, or a byval argument
IsIdentifiedObject(o) ==
  \/ o \in Objs /\ ObjKind(o) \in {"alloca", "global"}
  \/ o \in Objs /\ ObjKind(o) = "call" /\ ReturnDoesNotAlias(o)
  \/ o \in Objs /\ ObjKind(o) = "arg" /\ ArgPrecludesRace(o)

NoPtr == "noptr"

Ptrs ==
  {"argP", "gepArgP", "argV", "stk1", "stk2", "heap", "gExt", "gInt",
   "tls", "gepTls", "phi", "sel", "null", "cmix", "gConst"}

\* how the pointer operand is formed: "obj" the object's own value, "gep"
\* an in-bounds offset from one object, "phi" a merge of several objects,
\* "tlsaddr" a call of llvm.threadlocal.address on a thread-local global,
\* "null" the null pointer constant
PtrKind(p) ==
  CASE p \in {"gepArgP", "gepTls"} -> "gep"
    [] p \in {"phi", "sel", "cmix"} -> "phi"
    [] p = "tls" -> "tlsaddr"
    [] p = "null" -> "null"
    [] OTHER -> "obj"

\* getUnderlyingObjects(Ptr, Objects, &LI, 0)
PtrObjs(p) ==
  CASE p = "gepArgP" -> {"argP"}
    [] p \in {"tls", "gepTls"} -> {"gTls"}
    [] p = "phi" -> {"argP", "stk2"}
    [] p = "sel" -> {"stk2", "heap"}
    [] p = "cmix" -> {"nullc", "gConst", "fn", "blockaddr", "cint", "cfp", "cdata",
                      "undef", "tokennone", "cexpr", "heap"}
    [] p = "null" -> {"nullc"}
    [] OTHER -> {p}

\* getUnderlyingObject(Ptr): the one object the pointer is based on, or the
\* pointer's own value when the walk stops at a merge
UnderlyingObject(p) == IF PtrKind(p) = "phi" THEN p ELSE CHOOSE o \in PtrObjs(p) : TRUE

\* Value::stripInBoundsOffsets()
StripInBoundsOffsets(p) ==
  IF PtrKind(p) \in {"obj", "gep", "null"} THEN UnderlyingObject(p) ELSE p

\* the accesses GetGeneralAccesses yields for the instructions of the
\* procedure: block of the instruction, pointer of the location (NoPtr: no
\* location), Mod and Ref flags, Instruction::mayWriteToMemory()
AccTable ==
  << [blk |-> "t1",    ptr |-> "argP",    mod |-> TRUE,  ref |-> FALSE, mayWrite |-> TRUE],
     [blk |-> "c1",    ptr |-> "argP",    mod |-> TRUE,  ref |-> FALSE, mayWrite |-> TRUE],
     [blk |-> "entry", ptr |-> "argP",    mod |-> TRUE,  ref |-> FALSE, mayWrite |-> TRUE],
     [blk |-> "c1",    ptr |-> "argP",    mod |-> FALSE, ref |-> TRUE,  mayWrite |-> FALSE],
     [blk |-> "t1",    ptr |-> "gepArgP", mod |-> FALSE, ref |-> TRUE,  mayWrite |-> FALSE],
     [blk |-> "t1",    ptr |-> NoPtr,     mod |-> TRUE,  ref |-> TRUE,  mayWrite |-> TRUE],
     [blk |-> "c1",    ptr |-> NoPtr,     mod |-> FALSE, ref |-> TRUE,  mayWrite |-> FALSE],
     [blk |-> "c2",    ptr |-> NoPtr,     mod |-> FALSE, ref |-> TRUE,  mayWrite |-> TRUE],
     [blk |-> "t2",    ptr |-> NoPtr,     mod |-> TRUE,  ref |-> TRUE,  mayWrite |-> TRUE],
     [blk |-> "t1",    ptr |-> "tls",     mod |-> TRUE,  ref |-> FALSE, mayWrite |-> TRUE],
     [blk |-> "c1",    ptr |-> "tls",     mod |-> TRUE,  ref |-> FALSE, mayWrite |-> TRUE],
     [blk |-> "t1",    ptr |-> "gepTls",  mod |-> TRUE,  ref |-> FALSE, mayWrite |-> TRUE],
     [blk |-> "c1",    ptr |-> "gepTls",  mod |-> TRUE,  ref |-> FALSE, mayWrite |-> TRUE],
     [blk |-> "t2",    ptr |-> "stk1",    mod |-> TRUE,  ref |-> FALSE, mayWrite |-> TRUE],
     [blk |-> "c2",    ptr |-> "stk1",    mod |-> TRUE,  ref |-> TRUE,  mayWrite |-> TRUE],
     [blk |-> "t3",    ptr |-> "stk2",    mod |-> TRUE,  ref |-> FALSE, mayWrite |-> TRUE],
     [blk |-> "c3",    ptr |-> "stk2",    mod |-> FALSE, ref |-> TRUE,  mayWrite |-> FALSE],
     [blk |-> "t2",    ptr |-> "argV",    mod |-> TRUE,  ref |-> FALSE, mayWrite |-> TRUE],
     [blk |-> "t3",    ptr |-> "phi",     mod |-> TRUE,  ref |-> FALSE, mayWrite |-> TRUE],
     [blk |-> "h1",    ptr |-> "gInt",    mod |-> TRUE,  ref |-> FALSE, mayWrite |-> TRUE],
     [blk |-> "t1",    ptr |-> "null",    mod |-> TRUE,  ref |-> FALSE, mayWrite |-> TRUE],
     [blk |-> "t2",    ptr |-> "heap",    mod |-> TRUE,  ref |-> FALSE, mayWrite |-> TRUE],
     [blk |-> "c2",    ptr |-> "gExt",    mod |-> FALSE, ref |-> TRUE,  mayWrite |-> FALSE],
     [blk |-> "c3",    ptr |-> "sel",     mod |-> FALSE, ref |-> TRUE,  mayWrite |-> FALSE] >>

Accesses == 1 .. Len(AccTable)

\* the invalid GeneralAccess(): no racer is named
NoAccess == 0

Blk(a) == AccTable[a].blk
\* GeneralAccess::getPtr()
GetPtr(a) == AccTable[a].ptr
\* GeneralAccess::isMod()
IsMod(a) == AccTable[a].mod
\* GeneralAccess::isRef()
IsRef(a) == AccTable[a].ref
\* GA.I->mayWriteToMemory()
MayWriteToMemory(a) == AccTable[a].mayWrite
\* GA.Loc
HasLoc(a) == GetPtr(a) # NoPtr

\* MemAccessInfo(GA.getPtr(), GA.isMod())
MemAccessInfo(a) == <<GetPtr(a), IsMod(a)>>

\* the filter of addAccess without the tests for constant globals and
\* functions
KeptObjectsWithReadOnlySymbols(p) ==
  {o \in PtrObjs(p) : ObjKind(o) # "null" /\ ~IsNonPtrConst(o)}

\* the objects addAccess keeps for a pointer: not the null constant, not a
\* constant global, not a function
KeptObjects(p) ==
  {o \in PtrObjs(p) :
     /\ ObjKind(o) # "null"
     /\ ~IsNonPtrConst(o)
     /\ ~(ObjKind(o) = "global" /\ GlobalIsConstant(o))
     /\ ObjKind(o) # "function"}

\* the access-to-objects map once addAccess has run on every instruction
AccessToObjs(key) ==
  IF \E a \in Accesses : HasLoc(a) /\ MemAccessInfo(a) = key
  THEN KeptObjects(key[1])
  ELSE {}

\* AccessToObjs as a map: an access has an entry once an object was inserted
FinishedAccessToObjs ==
  [key \in {MemAccessInfo(a) : a \in {b \in Accesses : HasLoc(b) /\ KeptObjects(GetPtr(b)) # {}}}
     |-> KeptObjects(key[1])]

---------------------------------------------------------------------------
(* Oracle answers.  A dependence is absent (some = FALSE) or gives, for    *)
(* every common loop level, whether it is scalar and its direction set.    *)

Directions == {{}, {"EQ"}, {"LT"}, {"LT", "EQ", "GT"}}

LevelInfo == [scalar : BOOLEAN, dir : Directions]

NoDependence == [some |-> FALSE, lv |-> <<>>]

\* the iteration orders of a SmallPtrSet the model distinguishes
IterOrders == {"fwd", "rev"}

ObjOrder ==
  <<"stk0", "stk1", "stk2", "heap", "ret", "ld", "argP", "argV",
    "gExt", "gInt", "gTls", "nullc",
    "gConst", "fn", "blockaddr", "cint", "cfp", "cdata", "undef", "tokennone",
    "cexpr">>

ObjRank(o) == CHOOSE i \in 1 .. Len(ObjOrder) : ObjOrder[i] = o

RECURSIVE InOrder(_, _)
\* the elements of S in the order a loop over the set visits them
InOrder(S, ord) ==
  IF S = {} THEN <<>>
  ELSE LET first ==
             CHOOSE o \in S :
               \A q \in S :
                 IF ord = "fwd" THEN ObjRank(o) <= ObjRank(q)
                 ELSE ObjRank(o) >= ObjRank(q)
       IN <<first>> \o InOrder(S \ {first}, ord)

---------------------------------------------------------------------------
(* getCommonLoop, checkDependence.                                         *)

RECURSIVE CommonLoopOf(_, _)
\* the level-equalising walk shared by both overloads of getCommonLoop
CommonLoopOf(l1, l2) ==
  IF LoopDepth(l1) > LoopDepth(l2) THEN CommonLoopOf(LoopParent(l1), l2)
  ELSE IF LoopDepth(l2) > LoopDepth(l1) THEN CommonLoopOf(l1, LoopParent(l2))
  ELSE IF l1 # l2 THEN CommonLoopOf(LoopParent(l1), LoopParent(l2))
  ELSE l1

\* getCommonLoop(const BasicBlock *B1, const BasicBlock *B2, LI)
getCommonLoop(b1, b2) == CommonLoopOf(BlockLoop(b1), BlockLoop(b2))

\* getCommonLoop(L, B, LI) answering with the loop of the block
getCommonLoopLBOfBlock(l, b) == BlockLoop(b)

\* getCommonLoop(const Loop *L, const BasicBlock *B, LI)
getCommonLoopLB(l, b) == CommonLoopOf(l, BlockLoop(b))

RECURSIVE SharedUntilBreak(_, _)
\* one of the two loops that collect BaseObjs: objects are inserted until
\* the first object the other access does not have
SharedUntilBreak(seq, other) ==
  IF seq = <<>> THEN [base |-> {}, broke |-> FALSE]
  ELSE IF Head(seq) \in other
       THEN LET rest == SharedUntilBreak(Tail(seq), other)
            IN [base |-> {Head(seq)} \cup rest.base, broke |-> rest.broke]
       ELSE [base |-> {}, broke |-> TRUE]

RECURSIVE RefineCommonObjLoop(_, _)
\* the loop over BaseObjs that narrows CommonObjLoop
RefineCommonObjLoop(seq, col) ==
  IF seq = <<>> \/ col = NoLoop THEN col
  ELSE LET Obj == Head(seq)
       IN IF ~IsInstruction(Obj) THEN NoLoop
          ELSE IF ObjKind(Obj) \notin {"alloca", "call"} THEN NoLoop
          ELSE IF ObjKind(Obj) = "alloca"
               THEN RefineCommonObjLoop(Tail(seq), getCommonLoopLB(col, ObjBlock(Obj)))
          ELSE IF ~ReturnDoesNotAlias(Obj) THEN NoLoop
          ELSE RefineCommonObjLoop(Tail(seq), getCommonLoopLB(col, ObjBlock(Obj)))

\* MinObjDepth at the assertion, from the common loop and the outcomes s1 and
\* s2 of the two loops that collect BaseObjs
MinObjDepthFrom(CommonLoop, s1, s2, ord) ==
  LET BaseObjs == s1.base \cup s2.base
      MinObjDepth0 == IF s1.broke \/ s2.broke THEN 0 ELSE LoopDepth(CommonLoop)
      CommonObjLoop0 == IF BaseObjs = {} THEN NoLoop ELSE CommonLoop
      MinObjDepth1 ==
        IF BaseObjs = {} \/ CommonObjLoop0 = NoLoop THEN 0 ELSE MinObjDepth0
      CommonObjLoop ==
        IF MinObjDepth1 # 0
        THEN RefineCommonObjLoop(InOrder(BaseObjs, ord), CommonObjLoop0)
        ELSE CommonObjLoop0
  IN IF CommonObjLoop = NoLoop THEN 0 ELSE LoopDepth(CommonObjLoop)

\* the object-derived minimum loop depth (MinObjDepth at the assertion)
MinObjDepthOf(GA1, GA2, ord) ==
  MinObjDepthFrom(
    getCommonLoop(Blk(GA1), Blk(GA2)),
    SharedUntilBreak(InOrder(AccessToObjs(MemAccessInfo(GA1)), ord),
                     AccessToObjs(MemAccessInfo(GA2))),
    SharedUntilBreak(InOrder(AccessToObjs(MemAccessInfo(GA2)), ord),
                     AccessToObjs(MemAccessInfo(GA1))),
    ord)

RECURSIVE AncestorAtDepth(_, _)
\* the loop of depth d on the parent chain of l
AncestorAtDepth(l, d) ==
  IF LoopDepth(l) <= d THEN l ELSE AncestorAtDepth(LoopParent(l), d)

\* some maybe-parallel task of the spindle of the header of l encloses b
MPTEnclosesDst(l, b) ==
  \E MPT \in MPTasks[SpindleFor(LoopHeader(l))] : Encloses(MPT, b)

RECURSIVE MinLoopDepthFrom(_, _, _, _, _)
\* the top-down walk over LoopsToCheck: d is MinLoopDepthToCheck, and the
\* loop popped next is the ancestor of CommonLoop of depth d
MinLoopDepthFrom(d, MaxDepth, MinObjDepth, CommonLoop, B2) ==
  IF d > MaxDepth THEN d
  ELSE IF d < MinObjDepth
       THEN MinLoopDepthFrom(d + 1, MaxDepth, MinObjDepth, CommonLoop, B2)
  ELSE IF MPTEnclosesDst(AncestorAtDepth(CommonLoop, d), B2) THEN d
  ELSE MinLoopDepthFrom(d + 1, MaxDepth, MinObjDepth, CommonLoop, B2)

\* some maybe-parallel task, back edges excluded, of spindle s encloses b
MPTInLoopEncloses(s, b) == \E MPT \in MPTasksInLoop[s] : Encloses(MPT, b)

\* the representative spindles of both accesses in their common task are
\* not shared exception-handling spindles
NoSharedEH(GA1, GA2) ==
  /\ ~IsSharedEH(GetRepSpindleInTask(SpindleFor(Blk(GA1)),
                                      EnclosingTask(Blk(GA1), Blk(GA2))))
  /\ ~IsSharedEH(GetRepSpindleInTask(SpindleFor(Blk(GA2)),
                                      EnclosingTask(Blk(GA1), Blk(GA2))))

\* CommonLoop once the loop of the common task has replaced a common loop
\* that does not contain that task's entry; noSharedEH is the outcome of the
\* test that guards the replacement
AdjustToTask(CommonLoop, CommonTask, noSharedEH) ==
  IF noSharedEH /\ ~LoopContains(CommonLoop, TaskEntry(CommonTask))
  THEN BlockLoop(TaskEntry(CommonTask))
  ELSE CommonLoop

\* CommonLoop of the pair after that replacement
TaskAdjustedLoop(GA1, GA2) ==
  AdjustToTask(getCommonLoop(Blk(GA1), Blk(GA2)),
               EnclosingTask(Blk(GA1), Blk(GA2)),
               NoSharedEH(GA1, GA2))

\* "Update MaxLoopDepthToCheck": OldDepth is the depth of the common loop of
\* the blocks, NewDepth that of CommonLoop after the replacement
UpdateMaxLoopDepth(noSharedEH, OldDepth, NewDepth, MinObjDepth) ==
  IF noSharedEH
  THEN (IF NewDepth = 0 THEN MinObjDepth ELSE NewDepth)
  ELSE OldDepth

\* MaxLoopDepthToCheck of the pair after "Update MaxLoopDepthToCheck"
MaxLoopDepthToCheckOf(GA1, GA2, MinObjDepth) ==
  UpdateMaxLoopDepth(NoSharedEH(GA1, GA2),
                     LoopDepth(getCommonLoop(Blk(GA1), Blk(GA2))),
                     LoopDepth(TaskAdjustedLoop(GA1, GA2)),
                     MinObjDepth)

\* the representative spindle of the block of GA in the common task of the
\* pair (I1Spindle for GA = GA1, I2Spindle for GA = GA2)
RepSpindle(GA, GA1, GA2) ==
  GetRepSpindleInTask(SpindleFor(Blk(GA)), EnclosingTask(Blk(GA1), Blk(GA2)))

\* checkDependenceAtDepths reading the task lists that include back edges
\* where the source reads MPTasksInLoop
checkDependenceAtDepthsWithBackEdges(D, GA1, GA2, MinObjDepth, MaxLoopDepthToCheck, CommonLoop) ==
  IF MaxLoopDepthToCheck = MinObjDepth
  THEN IF TaskFor(Blk(GA1)) = TaskFor(Blk(GA2)) THEN FALSE
       ELSE IF MaxLoopDepthToCheck = 0 THEN TRUE
       ELSE IF "EQ" \notin D.lv[MaxLoopDepthToCheck].dir THEN FALSE
       ELSE \/ \E MPT \in MPTasks[RepSpindle(GA1, GA1, GA2)] : Encloses(MPT, Blk(GA2))
            \/ \E MPT \in MPTasks[RepSpindle(GA2, GA1, GA2)] : Encloses(MPT, Blk(GA1))
  ELSE \E II \in MinLoopDepthFrom(1, LoopDepth(CommonLoop), MinObjDepth,
                                  CommonLoop, Blk(GA2)) .. MaxLoopDepthToCheck :
         \/ D.lv[II].scalar
         \/ D.lv[II].dir \ {"EQ"} # {}

\* checkDependenceAtDepths scanning every level from the outermost one on,
\* whatever the task lists of the loop headers hold
checkDependenceAtDepthsFromOutermost(D, GA1, GA2, MinObjDepth, MaxLoopDepthToCheck, CommonLoop) ==
  IF MaxLoopDepthToCheck = MinObjDepth
  THEN IF TaskFor(Blk(GA1)) = TaskFor(Blk(GA2)) THEN FALSE
       ELSE IF MaxLoopDepthToCheck = 0 THEN TRUE
       ELSE IF "EQ" \notin D.lv[MaxLoopDepthToCheck].dir THEN FALSE
       ELSE \/ MPTInLoopEncloses(RepSpindle(GA1, GA1, GA2), Blk(GA2))
            \/ MPTInLoopEncloses(RepSpindle(GA2, GA1, GA2), Blk(GA1))
  ELSE \E II \in 1 .. MaxLoopDepthToCheck :
         \/ D.lv[II].scalar
         \/ D.lv[II].dir \ {"EQ"} # {}

\* checkDependenceAtDepths examining the innermost level when the walk over
\* the loop stack has found no level
checkDependenceAtDepthsInnermostAtLeast(D, GA1, GA2, MinObjDepth, MaxLoopDepthToCheck, CommonLoop) ==
  IF MaxLoopDepthToCheck = MinObjDepth
  THEN IF TaskFor(Blk(GA1)) = TaskFor(Blk(GA2)) THEN FALSE
       ELSE IF MaxLoopDepthToCheck = 0 THEN TRUE
       ELSE IF "EQ" \notin D.lv[MaxLoopDepthToCheck].dir THEN FALSE
       ELSE \/ MPTInLoopEncloses(RepSpindle(GA1, GA1, GA2), Blk(GA2))
            \/ MPTInLoopEncloses(RepSpindle(GA2, GA1, GA2), Blk(GA1))
  ELSE \E II \in 1 .. MaxLoopDepthToCheck :
         /\ \/ II = MaxLoopDepthToCheck
            \/ II >= MinLoopDepthFrom(1, LoopDepth(CommonLoop), MinObjDepth,
                                      CommonLoop, Blk(GA2))
         /\ \/ D.lv[II].scalar
            \/ D.lv[II].dir \ {"EQ"} # {}

\* checkDependence from "if (MaxLoopDepthToCheck == MinObjDepth)" on, for the
\* values MinObjDepth, MaxLoopDepthToCheck and CommonLoop have at that point
checkDependenceAtDepths(D, GA1, GA2, MinObjDepth, MaxLoopDepthToCheck, CommonLoop) ==
  IF MaxLoopDepthToCheck = MinObjDepth
  THEN IF TaskFor(Blk(GA1)) = TaskFor(Blk(GA2)) THEN FALSE
       ELSE IF MaxLoopDepthToCheck = 0 THEN TRUE
       ELSE IF "EQ" \notin D.lv[MaxLoopDepthToCheck].dir THEN FALSE
       ELSE \/ MPTInLoopEncloses(RepSpindle(GA1, GA1, GA2), Blk(GA2))
            \/ MPTInLoopEncloses(RepSpindle(GA2, GA1, GA2), Blk(GA1))
  ELSE \E II \in MinLoopDepthFrom(1, LoopDepth(CommonLoop), MinObjDepth,
                                  CommonLoop, Blk(GA2)) .. MaxLoopDepthToCheck :
         \/ D.lv[II].scalar
         \/ D.lv[II].dir \ {"EQ"} # {}

\* checkDependence from the task adjustment on, MinObjDepth being known
checkDependenceFromTask(D, GA1, GA2, MinObjDepth) ==
  checkDependenceAtDepths(D, GA1, GA2, MinObjDepth,
                          MaxLoopDepthToCheckOf(GA1, GA2, MinObjDepth),
                          TaskAdjustedLoop(GA1, GA2))

\* checkDependence past the first "no loop" return: the pair has a common loop
checkDependenceInLoop(D, GA1, GA2, ord) ==
  checkDependenceFromTask(D, GA1, GA2, MinObjDepthOf(GA1, GA2, ord))

\* checkDependence with the same-task test placed ahead of the no-loop return
checkDependenceSameTaskFirst(D, GA1, GA2, ord) ==
  IF ~D.some THEN FALSE
  ELSE IF TaskFor(Blk(GA1)) = TaskFor(Blk(GA2)) THEN FALSE
  ELSE IF LoopDepth(getCommonLoop(Blk(GA1), Blk(GA2))) = 0 THEN TRUE
  ELSE checkDependenceInLoop(D, GA1, GA2, ord)

\* checkDependence without the no-loop return: a pair with no common loop
\* falls through to the loop-level scan, which finds no level to report
checkDependenceWithoutNoLoopReturn(D, GA1, GA2, ord) ==
  IF ~D.some THEN FALSE
  ELSE IF LoopDepth(getCommonLoop(Blk(GA1), Blk(GA2))) = 0 THEN FALSE
  ELSE checkDependenceInLoop(D, GA1, GA2, ord)

\* AccessPtrAnalysis::checkDependence(D, GA1, GA2)
checkDependence(D, GA1, GA2, ord) ==
  IF ~D.some THEN FALSE
  ELSE IF LoopDepth(getCommonLoop(Blk(GA1), Blk(GA2))) = 0 THEN TRUE
  ELSE checkDependenceInLoop(D, GA1, GA2, ord)

---------------------------------------------------------------------------
(* Capture queries, opaque accesses, alias disambiguation.                 *)

\* AccessPtrAnalysis::PointerCapturedBefore(Ptr, I); mayBe is the answer of
\* PointerMayBeCapturedBefore for the stripped pointer
PointerCapturedBefore(Ptr, mayBe) ==
  LET StrippedPtr == StripInBoundsOffsets(Ptr)
  IN IF ObjKind(StrippedPtr) = "null" THEN FALSE
     ELSE IF ObjKind(StrippedPtr) = "global" THEN TRUE
     ELSE IF ~IsInstruction(StrippedPtr) THEN TRUE
     ELSE mayBe

\* checkOpaqueAccesses from "if (MaxLoopDepthToCheck == MinObjDepth)" on
checkOpaqueAtDepths(GA1, GA2, MinObjDepth, MaxLoopDepthToCheck) ==
  IF MaxLoopDepthToCheck = MinObjDepth
  THEN IF TaskFor(Blk(GA1)) = TaskFor(Blk(GA2)) THEN FALSE
       ELSE IF MaxLoopDepthToCheck = 0 THEN TRUE
       ELSE \/ MPTInLoopEncloses(RepSpindle(GA1, GA1, GA2), Blk(GA2))
            \/ MPTInLoopEncloses(RepSpindle(GA2, GA1, GA2), Blk(GA1))
  ELSE TRUE

\* the part of checkOpaqueAccesses that follows the capture test: the
\* minimum object depth is taken to be 0
checkOpaqueLoops(GA1, GA2) ==
  IF LoopDepth(getCommonLoop(Blk(GA1), Blk(GA2))) = 0 THEN TRUE
  ELSE checkOpaqueAtDepths(GA1, GA2, 0, MaxLoopDepthToCheckOf(GA1, GA2, 0))

\* checkOpaqueAccesses answering "no race" as soon as one of the two
\* instructions cannot write
checkOpaqueAccessesBothMustWrite(GA1, GA2, cap1, cap2) ==
  IF ~MayWriteToMemory(GA1) \/ ~MayWriteToMemory(GA2) THEN FALSE
  ELSE IF ~HasLoc(GA1) /\ ~HasLoc(GA2) THEN TRUE
  ELSE IF ~(IF HasLoc(GA1) THEN PointerCapturedBefore(GetPtr(GA1), cap1)
                           ELSE PointerCapturedBefore(GetPtr(GA2), cap2))
       THEN FALSE
  ELSE checkOpaqueLoops(GA1, GA2)

\* checkOpaqueAccesses without the capture test of the located pointer
checkOpaqueAccessesWithoutCaptureTest(GA1, GA2, cap1, cap2) ==
  IF ~MayWriteToMemory(GA1) /\ ~MayWriteToMemory(GA2) THEN FALSE
  ELSE IF ~HasLoc(GA1) /\ ~HasLoc(GA2) THEN TRUE
  ELSE checkOpaqueLoops(GA1, GA2)

\* AccessPtrAnalysis::checkOpaqueAccesses(GA1, GA2); cap1 (cap2) is the
\* capture oracle's answer for the pointer of GA1 (GA2)
checkOpaqueAccesses(GA1, GA2, cap1, cap2) ==
  IF ~MayWriteToMemory(GA1) /\ ~MayWriteToMemory(GA2) THEN FALSE
  ELSE IF ~HasLoc(GA1) /\ ~HasLoc(GA2) THEN TRUE
  ELSE IF ~(IF HasLoc(GA1) THEN PointerCapturedBefore(GetPtr(GA1), cap1)
                           ELSE PointerCapturedBefore(GetPtr(GA2), cap2))
       THEN FALSE
  ELSE checkOpaqueLoops(GA1, GA2)

\* underlyingObjectsAlias answering NoAlias whenever one of the underlying
\* objects is not an identified object
underlyingObjectsAliasUnidentifiedDisjoint(GAA, GAB, noAlias, capA, capB) ==
  LET AObj == UnderlyingObject(GetPtr(GAA))
      BObj == UnderlyingObject(GetPtr(GAB))
  IN IF noAlias THEN "NoAlias"
     ELSE IF AObj = BObj THEN "MustAlias"
     ELSE IF ~IsIdentifiedObject(AObj) \/ ~IsIdentifiedObject(BObj) THEN "NoAlias"
     ELSE IF \/ ~PointerCapturedBefore(AObj, capA)
             \/ ~PointerCapturedBefore(BObj, capB)
          THEN "NoAlias"
          ELSE "MayAlias"

\* AccessPtrAnalysis::underlyingObjectsAlias(GAA, GAB); noAlias is the alias
\* oracle's answer for the two locations, capA (capB) the capture oracle's
\* answer for the underlying object of GAA (GAB) before the other access
underlyingObjectsAlias(GAA, GAB, noAlias, capA, capB) ==
  LET AObj == UnderlyingObject(GetPtr(GAA))
      BObj == UnderlyingObject(GetPtr(GAB))
  IN IF noAlias THEN "NoAlias"
     ELSE IF AObj = BObj THEN "MustAlias"
     ELSE IF ~IsIdentifiedObject(AObj) \/ ~IsIdentifiedObject(BObj)
          THEN IF \/ IsIdentifiedObject(AObj) /\ ~PointerCapturedBefore(AObj, capA)
                  \/ IsIdentifiedObject(BObj) /\ ~PointerCapturedBefore(BObj, capB)
               THEN "NoAlias"
               ELSE "MayAlias"
     ELSE "NoAlias"

\* isThreadLocalObject(V), applied to the pointer of an access
isThreadLocalObject(p) ==
  \/ PtrKind(p) = "tlsaddr"
  \/ PtrKind(p) = "obj" /\ ObjKind(p) = "global" /\ GlobalIsThreadLocal(p)

\* isa<ConstantPointerNull>(Ptr) && !NullPointerIsDefined(F, AS)
IsUndefinedNull(p) == PtrKind(p) = "null"

---------------------------------------------------------------------------
(* Race records and the object summary.                                    *)

RaceTypes == {"Local", "ViaAncestorRef", "ViaAncestorMod", "Opaque"}

RaceRecord(GA, type, Racer) == [acc |-> GA, type |-> type, racer |-> Racer]

\* setObjectMRForRace entering a new object without flags and adding the
\* flags only to an object the summary already has
setObjectMRForRaceNewWithoutFlags(MR, Ptr, MRI) ==
  IF Ptr \in DOMAIN MR THEN [MR EXCEPT ![Ptr] = @ \cup MRI] ELSE (Ptr :> {}) @@ MR

\* setObjectMRForRace(ObjectMRForRace, Ptr, MRI)
setObjectMRForRace(MR, Ptr, MRI) ==
  LET M0 == IF Ptr \in DOMAIN MR THEN MR ELSE (Ptr :> {}) @@ MR
  IN [M0 EXCEPT ![Ptr] = @ \cup MRI]

RECURSIVE SetLocalRaceObjectsOfWriter(_, _, _)
\* the loop of recordLocalRace setting flags for a writing access only: Mod,
\* and Ref when the access also reads
SetLocalRaceObjectsOfWriter(MR, GA, seq) ==
  IF seq = <<>> THEN MR
  ELSE LET M1 == IF IsMod(GA) /\ IsRef(GA)
                 THEN setObjectMRForRace(MR, Head(seq), {"Ref"}) ELSE MR
           M2 == IF IsMod(GA) THEN setObjectMRForRace(M1, Head(seq), {"Mod"}) ELSE M1
       IN SetLocalRaceObjectsOfWriter(M2, GA, Tail(seq))

RECURSIVE SetLocalRaceObjects(_, _, _)
\* the loop of recordLocalRace over the objects of GA
SetLocalRaceObjects(MR, GA, seq) ==
  IF seq = <<>> THEN MR
  ELSE LET M1 == IF IsMod(GA) THEN setObjectMRForRace(MR, Head(seq), {"Ref"}) ELSE MR
           M2 == setObjectMRForRace(M1, Head(seq), {"Mod"})
       IN SetLocalRaceObjects(M2, GA, Tail(seq))

\* AccessPtrAnalysis::recordLocalRace(GA, Result, ObjectMRForRace, Racer);
\* st is the pair of Result and ObjectMRForRace
recordLocalRace(st, GA, Racer) ==
  LET R1 == st.Result \cup {RaceRecord(GA, "Local", Racer)}
  IN IF ~HasLoc(GA) THEN [Result |-> R1, MR |-> st.MR]
     ELSE [Result |-> R1,
           MR |-> SetLocalRaceObjects(st.MR, GA,
                    InOrder(AccessToObjs(MemAccessInfo(GA)), "fwd"))]

\* LocalRace without the test "no access modifies"
LocalRaceWithoutModTest(GA1, GA2, o) ==
  IF ~HasLoc(GA1) \/ ~HasLoc(GA2)
  THEN checkOpaqueAccesses(GA1, GA2, o.capA, o.capB)
  ELSE IF IsUndefinedNull(GetPtr(GA1)) THEN FALSE
  ELSE IF IsUndefinedNull(GetPtr(GA2)) THEN FALSE
  ELSE IF underlyingObjectsAlias(GA1, GA2, o.noAlias, o.capA, o.capB) = "NoAlias"
       THEN FALSE
  ELSE IF isThreadLocalObject(GetPtr(GA1)) /\ isThreadLocalObject(GetPtr(GA2))
       THEN FALSE
  ELSE checkDependence(o.dep, GA1, GA2, o.ord)

\* LocalRace without the test of underlyingObjectsAlias
LocalRaceWithoutAliasTest(GA1, GA2, o) ==
  IF ~IsMod(GA1) /\ ~IsMod(GA2) THEN FALSE
  ELSE IF ~HasLoc(GA1) \/ ~HasLoc(GA2)
       THEN checkOpaqueAccesses(GA1, GA2, o.capA, o.capB)
  ELSE IF IsUndefinedNull(GetPtr(GA1)) THEN FALSE
  ELSE IF IsUndefinedNull(GetPtr(GA2)) THEN FALSE
  ELSE IF isThreadLocalObject(GetPtr(GA1)) /\ isThreadLocalObject(GetPtr(GA2))
       THEN FALSE
  ELSE checkDependence(o.dep, GA1, GA2, o.ord)

\* the verdict of evaluateMaybeParallelAccesses: LocalRace at the final test
LocalRace(GA1, GA2, o) ==
  IF ~IsMod(GA1) /\ ~IsMod(GA2) THEN FALSE
  ELSE IF ~HasLoc(GA1) \/ ~HasLoc(GA2)
       THEN checkOpaqueAccesses(GA1, GA2, o.capA, o.capB)
  ELSE IF IsUndefinedNull(GetPtr(GA1)) THEN FALSE
  ELSE IF IsUndefinedNull(GetPtr(GA2)) THEN FALSE
  ELSE IF underlyingObjectsAlias(GA1, GA2, o.noAlias, o.capA, o.capB) = "NoAlias"
       THEN FALSE
  ELSE IF isThreadLocalObject(GetPtr(GA1)) /\ isThreadLocalObject(GetPtr(GA2))
       THEN FALSE
  ELSE checkDependence(o.dep, GA1, GA2, o.ord)

\* AccessPtrAnalysis::evaluateMaybeParallelAccesses(GA1, GA2, Result,
\* ObjectMRForRace); o holds the oracle answers of this call
evaluateMaybeParallelAccesses(st, GA1, GA2, o) ==
  IF LocalRace(GA1, GA2, o)
  THEN recordLocalRace(recordLocalRace(st, GA1, GA2), GA2, GA1)
  ELSE st

---------------------------------------------------------------------------
(* The maybe-parallel-tasks dataflow.                                      *)

EmptyTaskList == [s \in Spindles |-> {}]

\* the task lists before the first evaluate: the continuation spindle of a
\* detach holds the detached task
markDefiningSpindle == 
  [s \in Spindles |->
     {t \in Tasks : t # RootTask /\ SpindleFor(DetachContinue(t)) = s}]

\* "Skip back edges for this task list": S starts at the header of its loop
\* and the incoming block lies in that loop
IsBackEdge(S, Inc) ==
  /\ BlockLoop(S) # NoLoop
  /\ LoopHeader(BlockLoop(S)) = S
  /\ LoopContains(BlockLoop(S), Inc)

\* PassEdge without the filter on the sync region
PassEdgeIgnoringSync(TL, Pred, Inc) == TL[Pred]

\* the tasks of Pred's list that pass the edge <<Pred, Inc>>: those not
\* synced by the sync region of the edge
PassEdge(TL, Pred, Inc) ==
  {MP \in TL[Pred] :
     ~(DetachSyncRegion(MP) # "none" /\ SyncRegionOf(Inc) = DetachSyncRegion(MP))}

\* evaluateEdges storing the propagated tasks in place of S's list
evaluateEdgesReplacing(TL, S, PredEdges) ==
  LET New == UNION {PassEdge(TL, e[1], e[2]) : e \in PredEdges}
  IN [TaskList |-> [TL EXCEPT ![S] = New],
      Complete |-> New \subseteq TL[S]]

\* evaluateEdges clearing Complete on every insertion, new or not
evaluateEdgesNeverComplete(TL, S, PredEdges) ==
  LET New == UNION {PassEdge(TL, e[1], e[2]) : e \in PredEdges}
  IN [TaskList |-> [TL EXCEPT ![S] = @ \cup New],
      Complete |-> New = {}]

\* the loop of evaluate over the incoming edges in PredEdges: the new task
\* lists and the value of Complete
evaluateEdges(TL, S, PredEdges) ==
  LET New == UNION {PassEdge(TL, e[1], e[2]) : e \in PredEdges}
  IN [TaskList |-> [TL EXCEPT ![S] = @ \cup New],
      Complete |-> New \subseteq TL[S]]

\* evaluate of the loop-body variant without the skip of back edges
evaluateInLoopBodyWithBackEdges(TL, S) == evaluateEdges(TL, S, InEdges(S))

\* evaluate of the loop-body variant working on the task lists in which the
\* defining spindles are marked
evaluateInLoopBodyOnMarkedLists(TL, S) ==
  evaluateEdges([s \in Spindles |-> TL[s] \cup markDefiningSpindle[s]], S,
                {e \in InEdges(S) : ~IsBackEdge(S, e[2])})

\* MaybeParallelTasksInLoopBody::evaluate(S, EvalNum)
evaluateInLoopBody(TL, S) ==
  evaluateEdges(TL, S, {e \in InEdges(S) : ~IsBackEdge(S, e[2])})

\* MaybeParallelTasks::evaluate(S, EvalNum): every incoming edge counts
evaluateBase(TL, S) == evaluateEdges(TL, S, InEdges(S))

\* the order in which one sweep of the dataflow visits the spindles
SweepOrder(dir) ==
  IF dir = "fwd"
  THEN <<"entry", "t1", "c1", "s1", "h1", "t2", "h2", "t3", "c3", "r2", "c2", "end">>
  ELSE <<"end", "c2", "r2", "c3", "t3", "h2", "t2", "h1", "s1", "c1", "t1", "entry">>

SweepDirs == {"fwd", "rev"}

RECURSIVE SweepFrom(_, _, _)
\* one sweep of evaluate over the spindles of seq
SweepFrom(TL, seq, inLoop) ==
  IF seq = <<>> THEN TL
  ELSE LET r == IF inLoop THEN evaluateInLoopBody(TL, Head(seq))
                ELSE evaluateBase(TL, Head(seq))
       IN SweepFrom(r.TaskList, Tail(seq), inLoop)

RECURSIVE evaluateParallelState(_, _)
\* TI.evaluateParallelState<StateT>(State): sweeps until nothing changes
evaluateParallelState(TL, inLoop) ==
  LET Next1 == SweepFrom(TL, SweepOrder("fwd"), inLoop)
  IN IF Next1 = TL THEN TL ELSE evaluateParallelState(Next1, inLoop)

---------------------------------------------------------------------------
(* Specification Spec: evaluateMaybeParallelAccesses applied to one pair   *)
(* of accesses of the procedure, with oracle answers drawn freely.         *)

NoCall == [ga1 |-> NoAccess, ga2 |-> NoAccess]

\* Spec takes the oracle answers of each call from the call itself
NoEnv == [sweep |-> "fwd"]

\* the dependences the oracle can report for a pair whose deepest common
\* loop has depth n
Dependences(n) ==
  {NoDependence} \cup {[some |-> TRUE, lv |-> f] : f \in [1 .. n -> LevelInfo]}

\* the oracle answers that can accompany a call on (GA1, GA2): the alias
\* oracle never separates a pointer from itself, and the dependence oracle,
\* which works on the same alias analysis, reports nothing for locations
\* that analysis separates
OracleAnswers(GA1, GA2) ==
  {o \in [noAlias : BOOLEAN, capA : BOOLEAN, capB : BOOLEAN,
          dep : Dependences(LoopDepth(getCommonLoop(Blk(GA1), Blk(GA2)))),
          ord : IterOrders] :
     /\ o.noAlias => (HasLoc(GA1) /\ HasLoc(GA2) /\ GetPtr(GA1) # GetPtr(GA2))
     /\ o.noAlias => ~o.dep.some}

\* the state once the constructor and the two dataflows have run
Init ==
  /\ pc = "ready"
  /\ call = NoCall
  /\ Result = {}
  /\ ObjectMRForRace = <<>>
  /\ MPTasks = evaluateParallelState(markDefiningSpindle, FALSE)
  /\ MPTasksInLoop = evaluateParallelState(EmptyTaskList, TRUE)
  /\ EvalNum = 0
  /\ ToProcess = <<>>
  /\ Complete = TRUE
  /\ Env = NoEnv
  /\ AccessToObjsMap = FinishedAccessToObjs
  /\ DetachCtxToStackFrame = <<>>
  /\ StackFrames = [F \in Functions |-> 0]

EvaluatePair(GA1, GA2, o) ==
  /\ pc = "ready"
  /\ \E st \in {evaluateMaybeParallelAccesses(
                   [Result |-> Result, MR |-> ObjectMRForRace], GA1, GA2, o)} :
       /\ Result' = st.Result
       /\ ObjectMRForRace' = st.MR
  /\ call' = [ga1 |-> GA1, ga2 |-> GA2, o |-> o]
  /\ pc' = "evaluated"
  /\ UNCHANGED <<MPTasks, MPTasksInLoop, EvalNum, ToProcess, Complete, Env,
                 AccessToObjsMap,
                 DetachCtxToStackFrame, StackFrames>>

Next ==
  \E GA1 \in Accesses, GA2 \in Accesses :
    \E o \in OracleAnswers(GA1, GA2) : EvaluatePair(GA1, GA2, o)

Spec == Init /\ [][Next]_vars

---------------------------------------------------------------------------
(* The whole analysis: the constructor's dataflow, then processAccessPtrs  *)
(* (both dataflows, the scan against the pointer arguments, and            *)
(* checkForRacesHelper from the root task).                                *)

\* the number of sweeps after which the driver of the dataflow is cut off
MaxEvalNum == 16

\* -assume-safe-malloc, cl::init(true)
AssumeSafeMalloc == TRUE

\* isAllocFn(Obj, TLI)
IsAllocFn(o) == o = "heap"

\* GlobalVariable::hasPrivateLinkage() || hasInternalLinkage()
HasLocalLinkage(o) == o = "gInt"

\* ArgumentPtrs: the pointer arguments analyzeFunction hands over
ArgumentPtrs == {"argP", "argV"}

\* Argument::onlyReadsMemory()
ArgOnlyReadsMemory(arg) == FALSE

\* the dependence profiles of a run: what the dependence oracle reports at
\* every level of every pair it is asked about
DepProfiles == {"none", "eq", "all", "scalar"}

LevelOf(profile) ==
  CASE profile = "eq" -> [scalar |-> FALSE, dir |-> {"EQ"}]
    [] profile = "all" -> [scalar |-> FALSE, dir |-> {"LT", "EQ", "GT"}]
    [] OTHER -> [scalar |-> TRUE, dir |-> {}]

Envs ==
  [sweep : SweepDirs, dep : DepProfiles, noAlias : BOOLEAN, cap : BOOLEAN,
   argAlias : BOOLEAN, ord : IterOrders]

\* the oracle answers of the run for the pair (GA1, GA2)
OracleFor(GA1, GA2) ==
  LET na == Env.noAlias /\ HasLoc(GA1) /\ HasLoc(GA2) /\ GetPtr(GA1) # GetPtr(GA2)
      n == LoopDepth(getCommonLoop(Blk(GA1), Blk(GA2)))
  IN [noAlias |-> na, capA |-> Env.cap, capB |-> Env.cap,
      dep |-> IF na \/ Env.dep = "none" THEN NoDependence
              ELSE [some |-> TRUE, lv |-> [l \in 1 .. n |-> LevelOf(Env.dep)]],
      ord |-> Env.ord]

\* AA->alias(GALoc, MemoryLocation::getBeforeOrAfter(ArgPtr)) is not NoAlias
AliasesArgument(GA, ArgPtr) == GetPtr(GA) = ArgPtr \/ Env.argAlias

\* AA->getModRefInfo(GA.I, MemoryLocation::getBeforeOrAfter(ArgPtr))
ArgModRef(GA, ArgPtr) ==
  IF Env.argAlias THEN [mod |-> IsMod(GA), ref |-> IsRef(GA)]
  ELSE [mod |-> FALSE, ref |-> FALSE]

SpindleRank(s) == CHOOSE i \in 1 .. Len(SweepOrder("fwd")) : SweepOrder("fwd")[i] = s

RECURSIVE SpindleSeq(_)
\* the spindles of S in the order their successor lists give them
SpindleSeq(S) ==
  IF S = {} THEN <<>>
  ELSE LET first == CHOOSE s \in S : \A q \in S : SpindleRank(s) <= SpindleRank(q)
       IN <<first>> \o SpindleSeq(S \ {first})

\* successors(S)
Successors(s) == {t \in Spindles : \E e \in InEdges(t) : e[1] = s}

\* Spindle::succInSubTask(Succ)
succInSubTask(s, succ) ==
  /\ succ \in Successors(s)
  /\ TaskParent(SpindleTask(succ)) = SpindleTask(s)
  /\ SpindleFor(TaskEntry(SpindleTask(succ))) = succ

RECURSIVE DepthFirst(_, _, _)
\* depth_first over the spindle graph from the spindles stacked in todo;
\* inTask restricts the walk to the task of the start (InTask<Spindle *>)
DepthFirst(todo, seen, inTask) ==
  IF todo = <<>> THEN <<>>
  ELSE LET s == Head(todo)
           next == {t \in Successors(s) : inTask => SpindleTask(t) = SpindleTask(s)}
       IN IF s \in seen THEN DepthFirst(Tail(todo), seen, inTask)
          ELSE <<s>> \o DepthFirst(SpindleSeq(next) \o Tail(todo), seen \cup {s}, inTask)

RECURSIVE HelperSpindles(_)
RECURSIVE HelperSubTasks(_)
\* the spindles checkForRacesHelper(T, ...) handles, in order: each spindle
\* of the task, followed by the spindles of the subtasks it spawns
HelperSpindles(seq) ==
  IF seq = <<>> THEN <<>>
  ELSE <<Head(seq)>>
       \o HelperSubTasks(SpindleSeq({t \in Spindles : succInSubTask(Head(seq), t)}))
       \o HelperSpindles(Tail(seq))

\* the recursive calls for the successors that lie in subtasks; a subtask
\* has one entry, so Visited never holds a successor twice
HelperSubTasks(seq) ==
  IF seq = <<>> THEN <<>>
  ELSE HelperSpindles(DepthFirst(<<Head(seq)>>, {}, TRUE)) \o HelperSubTasks(Tail(seq))

\* SpindleAccessMap[S]
SpindleAccessMap(S) ==
  SelectSeq([a \in Accesses |-> a], LAMBDA a : SpindleFor(Blk(a)) = S)

\* TaskAccessMap[T]
TaskAccessMap(T) ==
  SelectSeq([a \in Accesses |-> a], LAMBDA a : TaskFor(Blk(a)) = T)

\* recordAncestorRace(GA, Ptr, Result, ObjectMRForRace)
recordAncestorRace(st, GA, Ptr) ==
  LET R1 == IF IsMod(GA) THEN st.Result \cup {RaceRecord(GA, "ViaAncestorRef", NoAccess)}
            ELSE st.Result
      M1 == IF IsMod(GA) THEN setObjectMRForRace(st.MR, Ptr, {"Ref"}) ELSE st.MR
  IN [Result |-> R1 \cup {RaceRecord(GA, "ViaAncestorMod", NoAccess)},
      MR |-> setObjectMRForRace(M1, Ptr, {"Mod"})]

\* recordOpaqueRace(GA, Ptr, Result, ObjectMRForRace)
recordOpaqueRace(st, GA, Ptr) ==
  LET M1 == IF IsMod(GA) THEN setObjectMRForRace(st.MR, Ptr, {"Ref"}) ELSE st.MR
  IN [Result |-> st.Result \cup {RaceRecord(GA, "Opaque", NoAccess)},
      MR |-> setObjectMRForRace(M1, Ptr, {"Mod"})]

\* classifyObject with every argument taken to preclude a race with the
\* caller
classifyObjectSkippingArguments(st, GA, Obj) ==
  IF ObjKind(Obj) = "alloca" THEN st
  ELSE IF AssumeSafeMalloc /\ IsAllocFn(Obj) THEN st
  ELSE IF ObjKind(Obj) = "arg" THEN st
  ELSE IF ObjKind(Obj) = "global"
       THEN IF HasLocalLinkage(Obj) THEN recordAncestorRace(st, GA, Obj)
            ELSE recordOpaqueRace(st, GA, Obj)
  ELSE recordOpaqueRace(st, GA, Obj)

\* classifyObject recording an opaque race for every global, whatever its
\* linkage
classifyObjectGlobalsOpaque(st, GA, Obj) ==
  IF ObjKind(Obj) = "alloca" THEN st
  ELSE IF AssumeSafeMalloc /\ IsAllocFn(Obj) THEN st
  ELSE IF ObjKind(Obj) = "arg"
       THEN IF ArgPrecludesRace(Obj) THEN st
            ELSE recordAncestorRace(st, GA, Obj)
  ELSE recordOpaqueRace(st, GA, Obj)

\* the body of the loop of checkForRacesHelper over the underlying objects
\* of an access
classifyObject(st, GA, Obj) ==
  IF ObjKind(Obj) = "alloca" THEN st
  ELSE IF AssumeSafeMalloc /\ IsAllocFn(Obj) THEN st
  ELSE IF ObjKind(Obj) = "arg"
       THEN IF ArgPrecludesRace(Obj) THEN st
            ELSE recordAncestorRace(st, GA, Obj)
  ELSE IF ObjKind(Obj) = "global"
       THEN IF HasLocalLinkage(Obj) THEN recordAncestorRace(st, GA, Obj)
            ELSE recordOpaqueRace(st, GA, Obj)
  ELSE recordOpaqueRace(st, GA, Obj)

NoRecords == [Result |-> {}, MR |-> <<>>]

\* st with the records and summary bits of every element of added: the
\* record functions only add to Result and to the summary, and none of them
\* reads what is already there, so a loop of them adds up to this union
AddAll(st, added) ==
  LET ptrs == DOMAIN st.MR \cup UNION {DOMAIN d.MR : d \in added}
  IN [Result |-> st.Result \cup UNION {d.Result : d \in added},
      MR |-> [ptr \in ptrs |->
                (IF ptr \in DOMAIN st.MR THEN st.MR[ptr] ELSE {})
                \cup UNION {d.MR[ptr] : d \in {e \in added : ptr \in DOMAIN e.MR}}]]

\* the first loop of checkForRacesHelper over SpindleAccessMap[S] and, for
\* each access with a pointer, over its underlying objects
classifyAccesses(st, S) ==
  AddAll(st,
    {classifyObject(NoRecords, x[1], x[2]) :
       x \in {y \in Accesses \X Objs :
                /\ SpindleFor(Blk(y[1])) = S
                /\ HasLoc(y[1])
                /\ y[2] \in AccessToObjs(MemAccessInfo(y[1]))}})

\* the pairs the loop over MPTasks.TaskList[S] hands to
\* evaluateMaybeParallelAccesses
MaybeParallelPairs(S) ==
  {<<GA1, GA2>> \in Accesses \X Accesses :
     /\ SpindleFor(Blk(GA1)) = S
     /\ \E MPT \in MPTasks[S] : TaskEncloses(MPT, TaskFor(Blk(GA2)))}

\* the calls of evaluateMaybeParallelAccesses on the pairs of pairs
evaluatePairs(st, pairs) ==
  AddAll(st,
    {evaluateMaybeParallelAccesses(NoRecords, p[1], p[2], OracleFor(p[1], p[2])) :
       p \in pairs})

\* one iteration of the loop of checkForRacesHelper over the spindles
checkForRacesSpindle(st, S) ==
  evaluatePairs(classifyAccesses(st, S), MaybeParallelPairs(S))

\* the checks of one access against one pointer argument
checkArgument(st, GA, ArgPtr) ==
  LET mod == IF HasLoc(GA)
             THEN AliasesArgument(GA, ArgPtr) /\ IsMod(GA)
             ELSE ArgModRef(GA, ArgPtr).mod
      ref == IF HasLoc(GA)
             THEN AliasesArgument(GA, ArgPtr) /\ IsRef(GA)
             ELSE ArgModRef(GA, ArgPtr).ref
      st1 == IF mod /\ ~ArgOnlyReadsMemory(ArgPtr)
             THEN [Result |-> st.Result
                     \cup {RaceRecord(GA, "ViaAncestorRef", NoAccess),
                           RaceRecord(GA, "ViaAncestorMod", NoAccess)},
                   MR |-> setObjectMRForRace(st.MR, ArgPtr, {"Mod", "Ref"})]
             ELSE st
  IN IF ref
     THEN [Result |-> st1.Result \cup {RaceRecord(GA, "ViaAncestorMod", NoAccess)},
           MR |-> setObjectMRForRace(st1.MR, ArgPtr, {"Mod"})]
     ELSE st1

\* the loop of processAccessPtrs over SpindleAccessMap[S]: the opaque-race
\* record of an access without location, and the checks against every
\* pointer argument
checkAccessesAgainstArguments(st, S) ==
  AddAll(st,
    {[Result |-> {RaceRecord(GA, "Opaque", NoAccess)}, MR |-> <<>>] :
       GA \in {a \in Accesses : SpindleFor(Blk(a)) = S /\ ~HasLoc(a)}}
    \cup
    {checkArgument(NoRecords, x[1], x[2]) :
       x \in {y \in Accesses \X ArgumentPtrs : SpindleFor(Blk(y[1])) = S}})

\* depth_first<Spindle *>(TI.getRootTask()->getEntrySpindle())
AllSpindlesDepthFirst == DepthFirst(<<SpindleFor(TaskEntry(RootTask))>>, {}, FALSE)

\* the spindles checkForRacesHelper(TI.getRootTask(), ...) handles, in order
RootHelperSpindles ==
  HelperSpindles(DepthFirst(<<SpindleFor(TaskEntry(RootTask))>>, {}, TRUE))

DataflowPhases == {"ctor", "mpt", "mptloop"}

\* the state as the constructor starts its dataflow: the defining spindles
\* are marked, no sweep has run
InitAnalysis ==
  /\ pc = "ctor"
  /\ call = NoCall
  /\ Result = {}
  /\ ObjectMRForRace = <<>>
  /\ MPTasks = markDefiningSpindle
  /\ MPTasksInLoop = EmptyTaskList
  /\ EvalNum = 0
  /\ Env \in Envs
  /\ AccessToObjsMap = FinishedAccessToObjs
  /\ DetachCtxToStackFrame = <<>>
  /\ StackFrames = [F \in Functions |-> 0]
  /\ ToProcess = SweepOrder(Env.sweep)
  /\ Complete = TRUE

\* one call State.evaluate(S, EvalNum) of the running dataflow
Evaluate ==
  /\ pc \in DataflowPhases
  /\ ToProcess # <<>>
  /\ LET S == Head(ToProcess)
         r == IF pc = "mptloop" THEN evaluateInLoopBody(MPTasksInLoop, S)
              ELSE evaluateBase(MPTasks, S)
     IN /\ MPTasks' = IF pc = "mptloop" THEN MPTasks ELSE r.TaskList
        /\ MPTasksInLoop' = IF pc = "mptloop" THEN r.TaskList ELSE MPTasksInLoop
        /\ Complete' = (Complete /\ r.Complete)
  /\ ToProcess' = Tail(ToProcess)
  /\ UNCHANGED <<pc, call, Result, ObjectMRForRace, EvalNum, Env,
                 AccessToObjsMap,
                 DetachCtxToStackFrame, StackFrames>>

\* a sweep ended and some evaluate reported a change: sweep again
NextSweep ==
  /\ pc \in DataflowPhases
  /\ ToProcess = <<>>
  /\ ~Complete
  /\ EvalNum < MaxEvalNum
  /\ EvalNum' = EvalNum + 1
  /\ ToProcess' = SweepOrder(Env.sweep)
  /\ Complete' = TRUE
  /\ UNCHANGED <<pc, call, Result, ObjectMRForRace, MPTasks, MPTasksInLoop, Env,
                 AccessToObjsMap,
                 DetachCtxToStackFrame, StackFrames>>

\* a sweep ended with every evaluate complete: the dataflow has reached its
\* fixed point, and the analysis goes on to what follows
FinishDataflow ==
  /\ pc \in DataflowPhases
  /\ ToProcess = <<>>
  /\ Complete
  /\ pc' = CASE pc = "ctor" -> "mpt"
             [] pc = "mpt" -> "mptloop"
             [] OTHER -> "args"
  /\ MPTasks' = IF pc = "ctor"
                THEN [s \in Spindles |-> MPTasks[s] \cup markDefiningSpindle[s]]
                ELSE MPTasks
  /\ ToProcess' = IF pc = "mptloop" THEN AllSpindlesDepthFirst
                  ELSE SweepOrder(Env.sweep)
  /\ EvalNum' = 0
  /\ UNCHANGED <<call, Result, ObjectMRForRace, MPTasksInLoop, Complete, Env,
                 AccessToObjsMap,
                 DetachCtxToStackFrame, StackFrames>>

\* processAccessPtrs: the accesses of one spindle against the arguments
CheckAgainstArguments ==
  /\ pc = "args"
  /\ ToProcess # <<>>
  /\ \E st \in {checkAccessesAgainstArguments(
                   [Result |-> Result, MR |-> ObjectMRForRace], Head(ToProcess))} :
       /\ Result' = st.Result
       /\ ObjectMRForRace' = st.MR
  /\ ToProcess' = Tail(ToProcess)
  /\ UNCHANGED <<pc, call, MPTasks, MPTasksInLoop, EvalNum, Complete, Env,
                 AccessToObjsMap,
                 DetachCtxToStackFrame, StackFrames>>

\* processAccessPtrs calls checkForRacesHelper on the root task
StartHelper ==
  /\ pc = "args"
  /\ ToProcess = <<>>
  /\ pc' = "helper"
  /\ ToProcess' = RootHelperSpindles
  /\ UNCHANGED <<call, Result, ObjectMRForRace, MPTasks, MPTasksInLoop, EvalNum,
                 Complete, Env,
                 AccessToObjsMap,
                 DetachCtxToStackFrame, StackFrames>>

\* checkForRacesHelper handles one spindle
CheckForRaces ==
  /\ pc = "helper"
  /\ ToProcess # <<>>
  /\ \E st \in {checkForRacesSpindle(
                   [Result |-> Result, MR |-> ObjectMRForRace], Head(ToProcess))} :
       /\ Result' = st.Result
       /\ ObjectMRForRace' = st.MR
  /\ ToProcess' = Tail(ToProcess)
  /\ UNCHANGED <<pc, call, MPTasks, MPTasksInLoop, EvalNum, Complete, Env,
                 AccessToObjsMap,
                 DetachCtxToStackFrame, StackFrames>>

\* processAccessPtrs returns
Finish ==
  /\ pc = "helper"
  /\ ToProcess = <<>>
  /\ pc' = "done"
  /\ UNCHANGED <<call, Result, ObjectMRForRace, MPTasks, MPTasksInLoop, EvalNum,
                 ToProcess, Complete, Env,
                 AccessToObjsMap,
                 DetachCtxToStackFrame, StackFrames>>

NextAnalysis ==
  \/ Evaluate
  \/ NextSweep
  \/ FinishDataflow
  \/ CheckAgainstArguments
  \/ StartHelper
  \/ CheckForRaces
  \/ Finish

SpecAnalysis == InitAnalysis /\ [][NextAnalysis]_vars

\* the dataflows alone, up to the point where the scan against the
\* arguments would start
NextDataflow ==
  \/ Evaluate
  \/ NextSweep
  \/ FinishDataflow

\* the driver is a sequential loop: it keeps calling evaluate and starting
\* sweeps for as long as there is one to run
SpecDataflow == InitAnalysis /\ [][NextDataflow]_vars /\ WF_vars(NextDataflow)

---------------------------------------------------------------------------
(* Properties of the pairwise evaluator, stated on the state that one call  *)
(* of evaluateMaybeParallelAccesses leaves behind.                          *)

Called == pc = "evaluated"

\* both local race records of the evaluated pair are in Result
BothRecorded ==
  {RaceRecord(call.ga1, "Local", call.ga2),
   RaceRecord(call.ga2, "Local", call.ga1)} \subseteq Result

\* the call left Result and the object summary as the constructor made them
NothingRecorded == Result = {} /\ ObjectMRForRace = <<>>

BothWrites == IsMod(call.ga1) /\ IsMod(call.ga2)

BothLocated == HasLoc(call.ga1) /\ HasLoc(call.ga2)

\* the two accesses resolve to the same, non-empty set of underlying objects
SameObjects ==
  /\ BothLocated
  /\ AccessToObjs(MemAccessInfo(call.ga1)) # {}
  /\ AccessToObjs(MemAccessInfo(call.ga1)) = AccessToObjs(MemAccessInfo(call.ga2))

NoLoopEnclosesBoth == getCommonLoop(Blk(call.ga1), Blk(call.ga2)) = NoLoop

\* one access lies inside a spawned task that is maybe-parallel with the
\* spindle of the other
CrossTask ==
  \/ \E MPT \in MPTasks[SpindleFor(Blk(call.ga1))] : Encloses(MPT, Blk(call.ga2))
  \/ \E MPT \in MPTasks[SpindleFor(Blk(call.ga2))] : Encloses(MPT, Blk(call.ga1))

SameTask == TaskFor(Blk(call.ga1)) = TaskFor(Blk(call.ga2))

DisambiguationAnswer ==
  underlyingObjectsAlias(call.ga1, call.ga2, call.o.noAlias, call.o.capA, call.o.capB)

\* the call asked the dependence oracle, and the oracle reported a dependence
DependenceReported ==
  /\ BothLocated
  /\ ~IsUndefinedNull(GetPtr(call.ga1))
  /\ ~IsUndefinedNull(GetPtr(call.ga2))
  /\ DisambiguationAnswer # "NoAlias"
  /\ ~(isThreadLocalObject(GetPtr(call.ga1)) /\ isThreadLocalObject(GetPtr(call.ga2)))
  /\ call.o.dep.some

\* C1: a call on a pair in which neither access has the Mod flag reports no
\* race and leaves Result and the object summary unchanged, whatever the
\* locations, the placement and the oracle answers are.
C1_ReadReadNeverRaces ==
  (Called /\ ~IsMod(call.ga1) /\ ~IsMod(call.ga2)) => NothingRecorded

\* a read/read call on two located accesses in maybe-parallel placement, of
\* the same object, for which the dependence oracle reports a dependence
C1_Witness ==
  /\ Called
  /\ ~IsMod(call.ga1) /\ ~IsMod(call.ga2)
  /\ SameObjects /\ CrossTask /\ NoLoopEnclosesBoth
  /\ call.o.dep.some
  /\ NothingRecorded

\* C2: when both accesses have locations and underlyingObjectsAlias answers
\* NoAlias, the call records no race, whatever the dependence oracle answers
\* and whatever the task and loop placement is.
C2_DisjointNeverRaces ==
  (Called /\ BothLocated /\ DisambiguationAnswer = "NoAlias") => NothingRecorded

\* two writes to distinct identified objects in maybe-parallel placement
\* outside any common loop, with a dependence reported by the oracle
C2_Witness ==
  /\ Called
  /\ BothLocated /\ (IsMod(call.ga1) \/ IsMod(call.ga2))
  /\ ~IsUndefinedNull(GetPtr(call.ga1)) /\ ~IsUndefinedNull(GetPtr(call.ga2))
  /\ DisambiguationAnswer = "NoAlias"
  /\ ~call.o.noAlias
  /\ call.o.dep.some
  /\ NoLoopEnclosesBoth
  /\ NothingRecorded

\* C3: two writes to the same underlying object, one inside a spawned task
\* that is maybe-parallel with the spindle of the other, no loop enclosing
\* both, and a dependence reported by the oracle: a local race is recorded
\* for both accesses, each naming the other as racer.
C3_CrossTaskNoLoopRace ==
  (Called /\ BothWrites /\ SameObjects /\ CrossTask /\ ~SameTask
     /\ NoLoopEnclosesBoth /\ DependenceReported)
    => BothRecorded

C3_Witness ==
  /\ Called /\ BothWrites /\ SameObjects /\ CrossTask /\ ~SameTask
  /\ NoLoopEnclosesBoth /\ DependenceReported
  /\ Result = {RaceRecord(call.ga1, "Local", call.ga2),
               RaceRecord(call.ga2, "Local", call.ga1)}
  /\ call.ga1 # call.ga2

\* C4 as stated: two writes to the same object in the same task, no loop
\* enclosing them, a dependence reported: the pair is classified as no-race.
C4_SameTaskNoLoopNoRace ==
  (Called /\ BothWrites /\ SameObjects /\ SameTask
     /\ NoLoopEnclosesBoth /\ DependenceReported)
    => NothingRecorded

\* C4, amended: for two writes to the same object in the same task with no
\* loop enclosing them and a dependence reported, the first return of
\* checkDependence ("no common loop, so the dependence implies a race") is
\* taken before the same-task test is reached, and a local race is recorded
\* for both accesses.
C4_SameTaskNoLoopRace ==
  (Called /\ BothWrites /\ SameObjects /\ SameTask
     /\ NoLoopEnclosesBoth /\ DependenceReported)
    => BothRecorded

C4_Witness ==
  /\ Called /\ BothWrites /\ SameObjects /\ SameTask
  /\ NoLoopEnclosesBoth /\ DependenceReported
  /\ call.ga1 # call.ga2
  /\ BothRecorded

\* C6: for two accesses without location a race is recorded if and only if
\* at least one of them has the Mod flag, whatever the loop nesting and the
\* capture answers are.
C6_OpaquePairPolicy ==
  (Called /\ ~HasLoc(call.ga1) /\ ~HasLoc(call.ga2))
    => IF IsMod(call.ga1) \/ IsMod(call.ga2) THEN BothRecorded
       ELSE NothingRecorded

\* two opaque accesses of the same task inside a loop, one of them a writer
C6_Witness ==
  /\ Called /\ ~HasLoc(call.ga1) /\ ~HasLoc(call.ga2)
  /\ IsMod(call.ga1) /\ ~IsMod(call.ga2)
  /\ ~NoLoopEnclosesBoth
  /\ ~call.o.capA /\ ~call.o.capB
  /\ BothRecorded

\* every object an access resolves to is a thread-local global
ResolvesToThreadLocal(a) ==
  /\ HasLoc(a)
  /\ PtrObjs(GetPtr(a)) # {}
  /\ \A obj \in PtrObjs(GetPtr(a)) : ObjKind(obj) = "global" /\ GlobalIsThreadLocal(obj)

\* C7: when both accesses of a pair resolve to thread-local objects, no race
\* is recorded for them, even when both are writes, their tasks are
\* maybe-parallel and the dependence oracle reports a dependence.
C7_ThreadLocalExemption ==
  (Called /\ ResolvesToThreadLocal(call.ga1) /\ ResolvesToThreadLocal(call.ga2))
    => NothingRecorded

\* the object-derived depth and the maximum loop depth to check of the pair
ObjDepth == MinObjDepthOf(call.ga1, call.ga2, call.o.ord)

MaxDepth == MaxLoopDepthToCheckOf(call.ga1, call.ga2, ObjDepth)

\* the pair of C8: different tasks, a common loop, the object-derived depth
\* equal to the maximum loop depth to check, a dependence that at that level
\* is not scalar and has the equal-iteration direction only, and neither
\* access enclosed by a task of the other's back-edge-excluded set
ConfinedToObject ==
  /\ BothLocated /\ SameObjects /\ ~SameTask
  /\ ~NoLoopEnclosesBoth
  /\ DependenceReported
  /\ \E d \in {MaxDepth} :
       /\ ObjDepth = d /\ d > 0
       /\ ~call.o.dep.lv[d].scalar
       /\ call.o.dep.lv[d].dir = {"EQ"}
  /\ ~MPTInLoopEncloses(RepSpindle(call.ga1, call.ga1, call.ga2), Blk(call.ga2))
  /\ ~MPTInLoopEncloses(RepSpindle(call.ga2, call.ga1, call.ga2), Blk(call.ga1))

---------------------------------------------------------------------------
(* Properties of the whole analysis and of the dataflow.                   *)

\* the accesses C5 speaks of: writes whose underlying objects include a
\* pointer argument without byval, sret or inalloca
WritesThroughArgument ==
  {a \in Accesses :
     /\ IsMod(a) /\ HasLoc(a)
     /\ \E obj \in AccessToObjs(MemAccessInfo(a)) :
          ObjKind(obj) = "arg" /\ ~ArgPrecludesRace(obj)}

\* C5: once processAccessPtrs has returned, Result holds a
\* race-via-ancestor-mod record for every write access whose underlying
\* objects include a pointer argument without byval, sret or inalloca, in
\* whatever task and loop the access lies and whatever the oracles answer.
C5_AncestorRaceViaArgument ==
  pc = "done" =>
    \A a \in WritesThroughArgument : RaceRecord(a, "ViaAncestorMod", NoAccess) \in Result

\* a finished run in which the alias oracle separates every derived pointer
\* from the arguments, with such a write inside a nested task in a loop
C5_Witness ==
  /\ pc = "done"
  /\ ~Env.argAlias
  /\ \E a \in WritesThroughArgument :
       /\ GetPtr(a) \notin ArgumentPtrs
       /\ TaskFor(Blk(a)) # RootTask
       /\ BlockLoop(Blk(a)) # NoLoop
       /\ RaceRecord(a, "ViaAncestorMod", NoAccess) \in Result

\* no evaluate on any spindle would add a task to either task list
FixedPoint ==
  /\ \A S \in Spindles : evaluateBase(MPTasks, S).TaskList = MPTasks
  /\ \A S \in Spindles : evaluateInLoopBody(MPTasksInLoop, S).TaskList = MPTasksInLoop

\* C9: no step of the dataflow removes a task from the list of any spindle,
\* every list stays within the set of all tasks, and the repeated sweeps of
\* evaluate eventually end at a fixed point, on a spindle graph with loops.
C9_DataflowTerminates ==
  /\ [][\A S \in Spindles : /\ MPTasks[S] \subseteq MPTasks'[S]
                           /\ MPTasksInLoop[S] \subseteq MPTasksInLoop'[S]]_vars
  /\ [](\A S \in Spindles : MPTasks[S] \subseteq Tasks /\ MPTasksInLoop[S] \subseteq Tasks)
  /\ <>(pc = "args" /\ FixedPoint)

\* the dataflows have ended, and tasks have travelled round both loops
C9_Witness ==
  /\ pc = "args"
  /\ FixedPoint
  /\ MPTasks["t3"] = {"T2", "T3"}
  /\ Env.sweep = "rev"

---------------------------------------------------------------------------
(* RaceInfo::invalidate.                                                   *)

\* the analyses whose invalidation RaceInfo::invalidate asks about, in the
\* order of the calls of Inv.invalidate
DependencyAnalyses ==
  <<"DominatorTreeAnalysis", "LoopAnalysis", "TaskAnalysis",
    "DependenceAnalysis", "ScalarEvolutionAnalysis", "TargetLibraryAnalysis">>

\* what a call of invalidate is given: whether PA preserves TapirRaceDetect,
\* whether it preserves the set AllAnalysesOn<Function>, and the analyses
\* for which Inv.invalidate answers true
InvalidateInputs ==
  [preserved : BOOLEAN, preservedSet : BOOLEAN,
   invalidated : SUBSET {DependencyAnalyses[i] : i \in DOMAIN DependencyAnalyses}]

\* RaceInfo::invalidate(F, PA, Inv)
invalidate(in) ==
  ~(\/ in.preserved
    \/ in.preservedSet
    \/ \E i \in DOMAIN DependencyAnalyses : DependencyAnalyses[i] \in in.invalidated)

\* the state of a cached result before the analysis manager asks about it
InitInvalidate ==
  /\ pc = "cached"
  /\ call = NoCall
  /\ Result = {}
  /\ ObjectMRForRace = <<>>
  /\ MPTasks = EmptyTaskList
  /\ MPTasksInLoop = EmptyTaskList
  /\ EvalNum = 0
  /\ ToProcess = <<>>
  /\ Complete = TRUE
  /\ Env = NoEnv
  /\ AccessToObjsMap = FinishedAccessToObjs
  /\ DetachCtxToStackFrame = <<>>
  /\ StackFrames = [F \in Functions |-> 0]

\* the analysis manager calls invalidate on the cached result
Invalidate(in) ==
  /\ pc = "cached"
  /\ call' = [in |-> in, ret |-> invalidate(in)]
  /\ pc' = "asked"
  /\ UNCHANGED <<Result, ObjectMRForRace, MPTasks, MPTasksInLoop, EvalNum,
                 ToProcess, Complete, Env,
                 AccessToObjsMap,
                 DetachCtxToStackFrame, StackFrames>>

NextInvalidate == \E in \in InvalidateInputs : Invalidate(in)

SpecInvalidate == InitInvalidate /\ [][NextInvalidate]_vars

\* C11: whenever a call of invalidate finds one of the analyses the result
\* depends on invalidated, it returns true (the cached result is invalid).
C11_InvalidatedWithDependency ==
  (pc = "asked" /\ call.in.invalidated # {}) => call.ret


---------------------------------------------------------------------------
(* checkOpaqueAccesses with the capture oracle asked per instruction.      *)

\* the answers PointerMayBeCapturedBefore has for the pointer of the located
\* access of a pair: before the instruction of GA1 and before that of GA2
CaptureAnswers == [beforeGA1 : BOOLEAN, beforeGA2 : BOOLEAN]

\* the pairs evaluateMaybeParallelAccesses hands to checkOpaqueAccesses
OpaquePairs ==
  {p \in Accesses \X Accesses :
     /\ IsMod(p[1]) \/ IsMod(p[2])
     /\ ~HasLoc(p[1]) \/ ~HasLoc(p[2])}

\* one call of checkOpaqueAccesses(GA1, GA2): the query it makes names the
\* instruction of the located access, so the answer it receives for GA1's
\* pointer is the one before GA1.I, and for GA2's pointer the one before GA2.I
CheckOpaque(GA1, GA2, cap) ==
  /\ pc = "ready"
  /\ call' = [ga1 |-> GA1, ga2 |-> GA2, cap |-> cap,
              ret |-> checkOpaqueAccesses(GA1, GA2, cap.beforeGA1, cap.beforeGA2)]
  /\ pc' = "answered"
  /\ UNCHANGED <<Result, ObjectMRForRace, MPTasks, MPTasksInLoop, EvalNum,
                 ToProcess, Complete, Env,
                 AccessToObjsMap,
                 DetachCtxToStackFrame, StackFrames>>

NextOpaque ==
  \E p \in OpaquePairs, cap \in CaptureAnswers : CheckOpaque(p[1], p[2], cap)

SpecOpaque == Init /\ [][NextOpaque]_vars

\* exactly one access of the answered pair is opaque
ExactlyOneOpaque == pc = "answered" /\ (HasLoc(call.ga1) # HasLoc(call.ga2))

\* the located access of the answered pair
LocatedOfPair == IF HasLoc(call.ga1) THEN call.ga1 ELSE call.ga2

\* PointerCapturedBefore for the located pointer, asked before the
\* instruction of the located access ...
CapturedBeforeLocated ==
  PointerCapturedBefore(GetPtr(LocatedOfPair),
                        IF HasLoc(call.ga1) THEN call.cap.beforeGA1
                        ELSE call.cap.beforeGA2)

\* ... and asked before the instruction of the opaque access
CapturedBeforeOpaque ==
  PointerCapturedBefore(GetPtr(LocatedOfPair),
                        IF HasLoc(call.ga1) THEN call.cap.beforeGA2
                        ELSE call.cap.beforeGA1)

\* C12 as stated: with exactly one opaque access, a race is reported only if
\* the located access's pointer is captured before the instruction of the
\* opaque access.
C12_CapturedBeforeOpaque ==
  (ExactlyOneOpaque /\ call.ret) => CapturedBeforeOpaque

\* C12: with exactly one opaque access, a race is reported only if the
\* located access's pointer is captured before the instruction of the
\* located access itself; if it is not, no race is reported.
C12_CapturedBeforeLocated ==
  (ExactlyOneOpaque /\ call.ret) => CapturedBeforeLocated

\* a race reported for an opaque call and a store to an alloca that is
\* captured before the store but not before the call
C12_Witness ==
  /\ ExactlyOneOpaque /\ call.ret
  /\ IsInstruction(StripInBoundsOffsets(GetPtr(LocatedOfPair)))
  /\ CapturedBeforeLocated /\ ~CapturedBeforeOpaque

\* no race reported because the alloca is not captured before the store,
\* although it is captured before the opaque call
C12_WitnessNoRace ==
  /\ ExactlyOneOpaque /\ ~call.ret
  /\ MayWriteToMemory(call.ga1) /\ MayWriteToMemory(call.ga2)
  /\ ~CapturedBeforeLocated /\ CapturedBeforeOpaque


---------------------------------------------------------------------------
(* Arguments that preclude a race with the caller.                         *)

\* the located accesses all of whose underlying objects are arguments with
\* byval, sret or inalloca
BasedOnPrecludedArgument ==
  {a \in Accesses :
     /\ HasLoc(a)
     /\ AccessToObjs(MemAccessInfo(a)) # {}
     /\ \A obj \in AccessToObjs(MemAccessInfo(a)) :
          ObjKind(obj) = "arg" /\ ArgPrecludesRace(obj)}

\* the race-via-ancestor records of access a in Result
AncestorRecordsOf(a) ==
  {r \in Result : r.acc = a /\ r.type \in {"ViaAncestorMod", "ViaAncestorRef"}}

\* C13: once processAccessPtrs has returned, Result holds no
\* race-via-ancestor-mod and no race-via-ancestor-ref record for an access
\* whose location is based on a byval, sret or inalloca argument only (in a
\* run where the alias oracle relates the access to no other argument).
C13_NoAncestorRaceForPrecludedArgument ==
  (pc = "done" /\ ~Env.argAlias) =>
    \A a \in BasedOnPrecludedArgument : AncestorRecordsOf(a) = {}


---------------------------------------------------------------------------
(* The object summary after a local race.                                  *)

\* the located accesses of the evaluated pair that resolve to obj
PairAccessesOn(obj) ==
  {a \in {call.ga1, call.ga2} :
     HasLoc(a) /\ obj \in AccessToObjs(MemAccessInfo(a))}

\* the flags the object summary holds for obj
SummaryOf(obj) ==
  IF obj \in DOMAIN ObjectMRForRace THEN ObjectMRForRace[obj] ELSE {}

\* C14 as stated: when a race is recorded for a pair, every object of a
\* writing access has the write flag, has the read flag only if a writing
\* access on it also reads, and objects no writing access of the pair
\* resolves to have no flag.
C14_FlagsFromWriterOnly ==
  (Called /\ BothRecorded) =>
    \A obj \in Objs :
      IF \E a \in PairAccessesOn(obj) : IsMod(a)
      THEN /\ "Mod" \in SummaryOf(obj)
           /\ "Ref" \in SummaryOf(obj) => \E a \in PairAccessesOn(obj) : IsMod(a) /\ IsRef(a)
      ELSE SummaryOf(obj) = {}

\* C14: when a race is recorded for a pair, every object of every located
\* access of the pair has the write flag, whether or not the access writes;
\* it has the read flag exactly when a writing access of the pair resolves
\* to it, whether or not that access reads; other objects have no flag.
C14_FlagsFromEveryLocatedAccess ==
  (Called /\ BothRecorded) =>
    \A obj \in Objs :
      SummaryOf(obj) =
        (IF PairAccessesOn(obj) # {} THEN {"Mod"} ELSE {})
        \cup (IF \E a \in PairAccessesOn(obj) : IsMod(a) THEN {"Ref"} ELSE {})

\* a race between an opaque write and a located read: an object of the read
\* has the write flag alone
C14_Witness ==
  /\ Called /\ BothRecorded
  /\ ~HasLoc(call.ga1) /\ HasLoc(call.ga2) /\ ~IsMod(call.ga2)
  /\ \E obj \in AccessToObjs(MemAccessInfo(call.ga2)) : SummaryOf(obj) = {"Mod"}


---------------------------------------------------------------------------
(* The verdict and the iteration order of the object sets.                 *)

\* the oracle answers of the evaluated call with the object sets iterated
\* in the order ord
WithOrder(ord) == [call.o EXCEPT !.ord = ord]

\* C15: the verdict of evaluateMaybeParallelAccesses on a pair is the same
\* for every order in which the underlying-object sets of the two accesses
\* are iterated, the procedure, the task lists and the oracle answers being
\* the same.
C15_VerdictIndependentOfOrder ==
  Called =>
    \A ord \in IterOrders :
      LocalRace(call.ga1, call.ga2, WithOrder(ord)) = BothRecorded


---------------------------------------------------------------------------
(* The access classifier: checkInstructionForRace, GetGeneralAccesses and  *)
(* addAccess, on instructions described by what these functions ask.       *)

\* -assume-safe-malloc and -ignore-termination-calls
Options == [AssumeSafeMalloc : BOOLEAN, IgnoreTerminationCalls : BOOLEAN]

\* LoadInst, StoreInst, VAArgInst, AtomicRMWInst, AtomicCmpXchgInst,
\* AnyMemSetInst, AnyMemTransferInst
MemKinds ==
  {"load", "store", "vaarg", "atomicrmw", "cmpxchg", "memset", "memtransfer"}

\* the pointers of the classified instructions
ClassifierPtrs == {"stk1", "cmix", "gConst"}

\* the pointer arguments of a call that GetGeneralAccesses does not skip
PtrArgLists == {<<>>, <<"stk1">>, <<"cmix", "stk1">>}

\* what is called: a debug intrinsic; detached.rethrow, taskframe.resume or
\* sync.unwind; a __csi, __csan or __cilksan function; an intrinsic that does
\* not access memory; an intrinsic of the ignored list; another intrinsic;
\* an allocation function; a reallocation function; a deallocation
\* function; no known function (indirect call); exit, abort,
\* __clang_call_terminate or __assert_fail; any other function
Callees ==
  {"dbg", "unwind", "csi", "intrNoMem", "intrIgnored", "intrOther",
   "alloc", "realloc", "free", "indirect", "exit", "plain"}

\* the instructions other than calls: pointer operand (destination for a
\* memory transfer, src its source), pointsToConstantMemory of the location
\* (of the source for a memory transfer), whether the block ends in
\* unreachable, whether ABIList holds the underlying global or its type
MemInsts ==
  [kind : MemKinds \ {"memtransfer"}, ptr : ClassifierPtrs, constMem : BOOLEAN,
   inTermBlock : BOOLEAN, ignored : {FALSE}]
  \cup [kind : {"store"}, ptr : ClassifierPtrs, constMem : {FALSE},
        inTermBlock : BOOLEAN, ignored : {TRUE}]
  \cup [kind : {"memtransfer"}, ptr : {"stk1", "cmix"}, src : {"stk1", "gConst"},
        constMem : BOOLEAN, inTermBlock : BOOLEAN, ignored : {FALSE}]
  \cup [kind : {"fence"}, inTermBlock : BOOLEAN, ignored : {FALSE}]

\* the calls: pointer arguments, whether the block ends in unreachable,
\* the callee's noreturn attribute, onlyAccessesArgMemory, whether the call
\* only reads memory, whether the callee is an externally visible symbol,
\* whether ABIList holds the callee
CallInsts ==
  [kind : {"call"},
   callee : {"dbg", "unwind", "csi", "intrNoMem", "intrIgnored", "intrOther"},
   args : {<<>>, <<"stk1">>}, inTermBlock : BOOLEAN, noReturn : {FALSE},
   onlyArgMem : {FALSE}, onlyReads : {FALSE}, external : {TRUE}, ignored : {FALSE}]
  \cup [kind : {"call"}, callee : {"alloc", "free"},
        args : PtrArgLists, inTermBlock : BOOLEAN, noReturn : {FALSE},
        onlyArgMem : BOOLEAN, onlyReads : {FALSE}, external : {TRUE}, ignored : {FALSE}]
  \cup [kind : {"call"}, callee : {"realloc"},
        args : PtrArgLists \ {<<>>}, inTermBlock : BOOLEAN, noReturn : {FALSE},
        onlyArgMem : BOOLEAN, onlyReads : {FALSE}, external : {TRUE}, ignored : {FALSE}]
  \cup [kind : {"call"}, callee : {"indirect"},
        args : PtrArgLists, inTermBlock : BOOLEAN, noReturn : {FALSE},
        onlyArgMem : BOOLEAN, onlyReads : {FALSE}, external : {FALSE}, ignored : {FALSE}]
  \cup [kind : {"call"}, callee : {"exit"},
        args : {<<>>, <<"stk1">>}, inTermBlock : BOOLEAN, noReturn : BOOLEAN,
        onlyArgMem : {FALSE}, onlyReads : {FALSE}, external : BOOLEAN, ignored : {FALSE}]
  \cup [kind : {"call"}, callee : {"plain"},
        args : PtrArgLists, inTermBlock : BOOLEAN, noReturn : BOOLEAN,
        onlyArgMem : BOOLEAN, onlyReads : {FALSE}, external : BOOLEAN, ignored : {FALSE}]
  \cup [kind : {"call"}, callee : {"plain"},
        args : PtrArgLists, inTermBlock : {FALSE}, noReturn : {FALSE},
        onlyArgMem : {FALSE}, onlyReads : BOOLEAN, external : {TRUE}, ignored : BOOLEAN]

Insts == MemInsts \cup CallInsts

\* isAllocFn(Call, TLI)
IsAllocCall(I) == I.callee \in {"alloc", "realloc"}

\* isReallocFn(Call)
IsReallocFn(I) == I.callee = "realloc"

\* getFreedOperand(Call, TLI) is not null
IsFreeCall(I) == I.callee = "free"

\* the test of the termination block in checkInstructionForRace: TRUE when
\* the call is ignored
IgnoredInTerminationBlock(I) ==
  /\ I.inTermBlock
  /\ I.callee # "indirect"
  /\ ~I.noReturn \/ I.callee = "exit"

\* checkInstructionForRace with the test of the termination block made
\* first, for every instruction
checkInstructionForRaceTerminationFirst(I, opt) ==
  IF opt.IgnoreTerminationCalls /\ I.inTermBlock
     /\ ~(I.kind = "call" /\ I.callee # "indirect" /\ I.external)
  THEN FALSE
  ELSE IF I.kind \in MemKinds THEN TRUE
  ELSE IF I.kind # "call" THEN FALSE
  ELSE IF I.callee \in {"dbg", "unwind", "csi", "intrNoMem", "intrIgnored"} THEN FALSE
  ELSE IF I.callee = "intrOther" THEN TRUE
  ELSE IF opt.AssumeSafeMalloc /\ IsAllocCall(I) THEN IsReallocFn(I)
  ELSE TRUE

\* checkInstructionForRace(I, TLI)
checkInstructionForRace(I, opt) ==
  IF I.kind \in MemKinds THEN TRUE
  ELSE IF I.kind # "call" THEN FALSE
  ELSE IF I.callee = "dbg" THEN FALSE
  ELSE IF I.callee \in {"unwind", "csi"} THEN FALSE
  ELSE IF I.callee \in {"intrNoMem", "intrIgnored"} THEN FALSE
  ELSE IF I.callee = "intrOther" THEN TRUE
  ELSE IF opt.AssumeSafeMalloc /\ IsAllocCall(I) THEN IsReallocFn(I)
  ELSE IF opt.IgnoreTerminationCalls /\ IgnoredInTerminationBlock(I) THEN FALSE
  ELSE TRUE

\* GeneralAccess(I, Loc, OperandNum, MRI); ptr is NoPtr without a location
GeneralAccess(ptr, operand, mri) ==
  [ptr |-> ptr, operand |-> operand,
   mod |-> "Mod" \in mri, ref |-> "Ref" \in mri]

\* AA->getMemoryEffects(Call).getModRef(), and the mask of every argument
CallMask(I) == IF I.onlyReads THEN {"Ref"} ELSE {"Mod", "Ref"}

\* the loop of GetGeneralAccesses over the arguments of a call
ArgAccesses(I) ==
  [i \in 1 .. Len(I.args) |-> GeneralAccess(I.args[i], i - 1, CallMask(I))]

\* GetGeneralAccesses for a call that adds the opaque access of a
\* deallocation call as of any other call
CallAccessesWithFreeOpaque(I, opt) ==
  IF IsAllocCall(I) /\ IsReallocFn(I)
  THEN <<GeneralAccess(I.args[1], 0, CallMask(I))>>
       \o (IF ~opt.AssumeSafeMalloc
           THEN <<GeneralAccess(NoPtr, 0, CallMask(I))>> ELSE <<>>)
  ELSE ArgAccesses(I)
       \o (IF ~I.onlyArgMem THEN <<GeneralAccess(NoPtr, 0, CallMask(I))>> ELSE <<>>)

\* GetGeneralAccesses for a call
CallAccesses(I, opt) ==
  IF IsAllocCall(I) /\ IsReallocFn(I)
  THEN <<GeneralAccess(I.args[1], 0, CallMask(I))>>
       \o (IF ~opt.AssumeSafeMalloc
           THEN <<GeneralAccess(NoPtr, 0, CallMask(I))>> ELSE <<>>)
  ELSE ArgAccesses(I)
       \o (IF opt.AssumeSafeMalloc /\ IsFreeCall(I) THEN <<>>
           ELSE IF ~I.onlyArgMem THEN <<GeneralAccess(NoPtr, 0, CallMask(I))>>
           ELSE <<>>)

\* GetGeneralAccesses(I, AccI, AA, TLI)
GetGeneralAccesses(I, opt) ==
  IF I.kind = "load"
  THEN IF I.constMem THEN <<>> ELSE <<GeneralAccess(I.ptr, 0, {"Ref"})>>
  ELSE IF I.kind \in {"store", "cmpxchg", "atomicrmw", "memset"}
  THEN <<GeneralAccess(I.ptr, 0, {"Mod"})>>
  ELSE IF I.kind = "vaarg"
  THEN IF I.constMem THEN <<>> ELSE <<GeneralAccess(I.ptr, 0, {"Mod", "Ref"})>>
  ELSE IF I.kind = "memtransfer"
  THEN <<GeneralAccess(I.ptr, 0, {"Mod"})>>
       \o (IF I.constMem THEN <<>> ELSE <<GeneralAccess(I.src, 1, {"Ref"})>>)
  ELSE IF I.kind = "call" THEN CallAccesses(I, opt)
  ELSE <<>>

\* the loop of addAccess over the accesses of GA: the objects of every
\* access with a pointer, filtered, are inserted under its MemAccessInfo
InsertObjects(map, GA) ==
  LET keys == {<<GA[i].ptr, GA[i].mod>> :
                 i \in {j \in DOMAIN GA : GA[j].ptr # NoPtr /\ KeptObjects(GA[j].ptr) # {}}}
  IN [key \in DOMAIN map \cup keys |->
        (IF key \in DOMAIN map THEN map[key] ELSE {})
        \cup (IF key \in keys THEN KeptObjects(key[1]) ELSE {})]

\* AccessPtrAnalysis::addAccess(I): the accesses appended to the access
\* maps, and AccessToObjs
addAccess(map, I, opt) ==
  IF checkInstructionForRace(I, opt) /\ ~I.ignored
  THEN [GA |-> GetGeneralAccesses(I, opt),
        map |-> InsertObjects(map, GetGeneralAccesses(I, opt))]
  ELSE [GA |-> <<>>, map |-> map]

\* the analysis before analyzeFunction visits the first instruction
InitClassifier ==
  /\ pc = "classify"
  /\ call = NoCall
  /\ Result = {}
  /\ ObjectMRForRace = <<>>
  /\ MPTasks = EmptyTaskList
  /\ MPTasksInLoop = EmptyTaskList
  /\ EvalNum = 0
  /\ ToProcess = <<>>
  /\ Complete = TRUE
  /\ Env \in Options
  /\ AccessToObjsMap = <<>>
  /\ DetachCtxToStackFrame = <<>>
  /\ StackFrames = [F \in Functions |-> 0]

\* analyzeFunction hands one instruction to addAccess
AddAccess(I) ==
  /\ pc = "classify"
  /\ \E r \in {addAccess(AccessToObjsMap, I, Env)} :
       /\ AccessToObjsMap' = r.map
       /\ call' = [inst |-> I, accepted |-> checkInstructionForRace(I, Env),
                   ret |-> r.GA]
  /\ UNCHANGED <<pc, Result, ObjectMRForRace, MPTasks, MPTasksInLoop, EvalNum,
                 ToProcess, Complete, Env, DetachCtxToStackFrame, StackFrames>>

NextClassifier == \E I \in Insts : AddAccess(I)

SpecClassifier == InitClassifier /\ [][NextClassifier]_vars

\* addAccess has been called
Classified == pc = "classify" /\ call # NoCall

\* the last classified instruction is a call of a deallocation function
\* and allocation is assumed safe
SafeFreeClassified ==
  /\ Classified
  /\ Env.AssumeSafeMalloc
  /\ call.inst.kind = "call" /\ IsFreeCall(call.inst)

InTerminationBlock ==
  /\ Classified
  /\ Env.IgnoreTerminationCalls
  /\ call.inst.inTermBlock

\* the instruction is a call of an externally visible symbol
IsCallOfExternalSymbol(I) ==
  I.kind = "call" /\ I.callee # "indirect" /\ I.external

\* the calls that reach the test of the termination block in
\* checkInstructionForRace: not intrinsics or instrumentation hooks, and
\* not allocation calls when allocation is assumed safe
ReachesTerminationTest(I, opt) ==
  /\ I.kind = "call"
  /\ I.callee \in {"alloc", "realloc", "free", "indirect", "exit", "plain"}
  /\ ~(opt.AssumeSafeMalloc /\ IsAllocCall(I))

\* C17 as stated: with ignore-termination-calls on, every operation in a
\* block that ends in unreachable is excluded by the classifier unless it is
\* a call of an externally visible symbol, loads, stores, atomics and memory
\* intrinsics included.
C17_ExcludedUnlessExternalCall ==
  (InTerminationBlock /\ ~IsCallOfExternalSymbol(call.inst)) => ~call.accepted

\* C17: with ignore-termination-calls on, in a block that ends in
\* unreachable, loads, stores, va_arg, atomics and memory intrinsics are
\* accepted by the classifier, and a call that reaches the test of the
\* termination block is accepted exactly when it is indirect or its callee
\* is marked noreturn and is not exit, abort, __clang_call_terminate or
\* __assert_fail, whether or not the callee is externally visible.
C17_TerminationRuleForCallsOnly ==
  InTerminationBlock =>
    /\ call.inst.kind \in MemKinds => call.accepted
    /\ ReachesTerminationTest(call.inst, Env) =>
         (call.accepted <=>
            \/ call.inst.callee = "indirect"
            \/ call.inst.noReturn /\ call.inst.callee # "exit")

\* a store in a block that ends in unreachable, accepted and given an entry
\* in the access-to-objects map
C17_Witness ==
  /\ InTerminationBlock
  /\ call.inst.kind = "store" /\ ~call.inst.ignored
  /\ call.accepted
  /\ Len(call.ret) = 1
  /\ <<call.ret[1].ptr, TRUE>> \in DOMAIN AccessToObjsMap

\* a call of an externally visible function without noreturn in such a
\* block, excluded
C17_WitnessExcludedExternalCall ==
  /\ InTerminationBlock
  /\ IsCallOfExternalSymbol(call.inst) /\ call.inst.callee = "plain"
  /\ ~call.inst.noReturn
  /\ ~call.accepted /\ call.ret = <<>>

\* C18: after any sequence of addAccess calls, no set of the
\* access-to-objects map holds a null pointer constant, a constant that
\* cannot denote an address, a constant global variable or a function, and
\* every entry belongs to a pointer (an access with a location).
C18_ObjectSetInvariant ==
  pc = "classify" =>
    /\ \A key \in DOMAIN AccessToObjsMap :
         /\ key[1] \in ClassifierPtrs
         /\ AccessToObjsMap[key] \subseteq PtrObjs(key[1])
         /\ \A obj \in AccessToObjsMap[key] :
              /\ ObjKind(obj) \notin {"null", "nonptrconst", "function"}
              /\ ~(ObjKind(obj) = "global" /\ GlobalIsConstant(obj))
    /\ call # NoCall =>
         \A i \in DOMAIN call.ret :
           call.ret[i].ptr = NoPtr => <<NoPtr, call.ret[i].mod>> \notin DOMAIN AccessToObjsMap

\* a call with an opaque access and a pointer argument that may point to
\* null, constants, a constant global, a function, a constant expression or
\* a malloc result: the entry of the argument holds the last two only
C18_Witness ==
  /\ Classified
  /\ call.inst.kind = "call" /\ call.accepted
  /\ \E i \in DOMAIN call.ret : call.ret[i].ptr = NoPtr
  /\ \E i \in DOMAIN call.ret :
       /\ call.ret[i].ptr = "cmix"
       /\ <<"cmix", call.ret[i].mod>> \in DOMAIN AccessToObjsMap
       /\ AccessToObjsMap[<<"cmix", call.ret[i].mod>>] = {"cexpr", "heap"}


---------------------------------------------------------------------------
(* underlyingObjectsAlias on its own.                                      *)

\* the pairs evaluateMaybeParallelAccesses hands to underlyingObjectsAlias
LocatedPairs ==
  {p \in Accesses \X Accesses :
     /\ IsMod(p[1]) \/ IsMod(p[2])
     /\ HasLoc(p[1]) /\ HasLoc(p[2])
     /\ ~IsUndefinedNull(GetPtr(p[1])) /\ ~IsUndefinedNull(GetPtr(p[2]))}

\* the answers of the alias oracle and of the capture oracle (capA: for the
\* underlying object of GAA before GAB.I, capB: the converse); the alias
\* oracle never separates a pointer from itself
AliasOracleAnswers(GAA, GAB) ==
  {o \in [noAlias : BOOLEAN, capA : BOOLEAN, capB : BOOLEAN] :
     o.noAlias => GetPtr(GAA) # GetPtr(GAB)}

\* one call of underlyingObjectsAlias(GAA, GAB)
CheckAlias(GAA, GAB, o) ==
  /\ pc = "ready"
  /\ call' = [ga1 |-> GAA, ga2 |-> GAB, o |-> o,
              ret |-> underlyingObjectsAlias(GAA, GAB, o.noAlias, o.capA, o.capB)]
  /\ pc' = "disambiguated"
  /\ UNCHANGED <<Result, ObjectMRForRace, MPTasks, MPTasksInLoop, EvalNum,
                 ToProcess, Complete, Env, AccessToObjsMap,
                 DetachCtxToStackFrame, StackFrames>>

NextAlias ==
  \E p \in LocatedPairs : \E o \in AliasOracleAnswers(p[1], p[2]) :
    CheckAlias(p[1], p[2], o)

SpecAlias == Init /\ [][NextAlias]_vars

AObjOfCall == UnderlyingObject(GetPtr(call.ga1))

BObjOfCall == UnderlyingObject(GetPtr(call.ga2))

\* the alias oracle has not answered NoAlias and the two underlying objects
\* are not identical
Undecided ==
  /\ pc = "disambiguated"
  /\ ~call.o.noAlias
  /\ AObjOfCall # BObjOfCall

\* one of the underlying objects is identified and not captured before the
\* other access
OneIdentifiedAndNotCaptured ==
  \/ IsIdentifiedObject(AObjOfCall) /\ ~PointerCapturedBefore(AObjOfCall, call.o.capA)
  \/ IsIdentifiedObject(BObjOfCall) /\ ~PointerCapturedBefore(BObjOfCall, call.o.capB)

\* C19 as stated: the pair is definitely-disjoint if either underlying
\* object is not identified, or if one is identified and not captured before
\* the other access; otherwise the pair may-overlap.
C19_DisjointIfUnidentified ==
  Undecided =>
    call.ret =
      IF \/ ~IsIdentifiedObject(AObjOfCall) \/ ~IsIdentifiedObject(BObjOfCall)
         \/ OneIdentifiedAndNotCaptured
      THEN "NoAlias" ELSE "MayAlias"

\* C19: the pair is definitely-disjoint if both underlying objects are
\* identified, or if one is identified and not captured before the other
\* access; otherwise (neither is identified, or the identified one is
\* captured) the pair may-overlap.
C19_DisjointIfBothIdentified ==
  Undecided =>
    call.ret =
      IF \/ IsIdentifiedObject(AObjOfCall) /\ IsIdentifiedObject(BObjOfCall)
         \/ OneIdentifiedAndNotCaptured
      THEN "NoAlias" ELSE "MayAlias"

\* an alloca captured before the other access, whose pointer is based on an
\* argument: may-overlap
C19_Witness ==
  /\ Undecided
  /\ ObjKind(AObjOfCall) = "alloca"
  /\ PointerCapturedBefore(AObjOfCall, call.o.capA)
  /\ ~IsIdentifiedObject(BObjOfCall)
  /\ call.ret = "MayAlias"


---------------------------------------------------------------------------
(* Sync pruning in one evaluate step.                                      *)

\* the edge e of the spindle graph ends in a sync on the region task MP was
\* spawned in
SyncedBy(MP, e) ==
  /\ SyncRegionOf(e[2]) # "none"
  /\ DetachSyncRegion(MP) = SyncRegionOf(e[2])

\* C20: in an evaluate step on spindle S, along an incoming edge whose source
\* block ends in a sync on region R, a task of the predecessor's list that
\* was spawned in R is not copied into S's list (it is in the new list only
\* if it was there before or another edge passes it), and every other task
\* of the predecessor's list is in the new list of S.
C20_SyncPruning ==
  [][(pc \in DataflowPhases /\ ToProcess # <<>> /\ ToProcess' = Tail(ToProcess)) =>
       LET S == Head(ToProcess)
           TL == IF pc = "mptloop" THEN MPTasksInLoop ELSE MPTasks
           TLnew == IF pc = "mptloop" THEN MPTasksInLoop' ELSE MPTasks'
       IN \A e \in {f \in InEdges(S) : SyncRegionOf(f[2]) # "none"} :
            \A MP \in TL[e[1]] :
              IF SyncedBy(MP, e)
              THEN MP \in TLnew[S] =>
                     \/ MP \in TL[S]
                     \/ \E f \in InEdges(S) \ {e} : MP \in TL[f[1]] /\ ~SyncedBy(MP, f)
              ELSE MP \in TLnew[S]]_vars

\* the constructor's first sweep has just evaluated spindle r2, whose
\* incoming edge leaves block x2 (sync on R3): of the list {T2, T3} of the
\* predecessor c3, T2 has been copied and T3, spawned in R3, has not
C20_Witness ==
  /\ pc = "ctor" /\ EvalNum = 0
  /\ ToProcess = <<"c2", "end">>
  /\ MPTasks["c3"] = {"T2", "T3"}
  /\ MPTasks["r2"] = {"T2"}

---------------------------------------------------------------------------
(* MaybeParallelTasksInLoopBody::evaluate applied to task lists that hold  *)
(* tasks: TaskList is a public member of the struct, and evaluate works on *)
(* whatever it holds.                                                      *)

\* the contents of TaskList that evaluate is applied to: one spindle holds
\* a set of spawned tasks, the lists of the others are empty
SeededTaskLists ==
  {[EmptyTaskList EXCEPT ![s] = ts] :
     <<s, ts>> \in Spindles \X SUBSET (Tasks \ {RootTask})}

InitInLoopBody ==
  /\ pc = "inloop"
  /\ call = NoCall
  /\ Result = {}
  /\ ObjectMRForRace = <<>>
  /\ MPTasks = markDefiningSpindle
  /\ MPTasksInLoop \in SeededTaskLists
  /\ EvalNum = 0
  /\ ToProcess = <<>>
  /\ Complete = TRUE
  /\ Env = [TaskList |-> MPTasksInLoop]
  /\ AccessToObjsMap = FinishedAccessToObjs
  /\ DetachCtxToStackFrame = <<>>
  /\ StackFrames = [F \in Functions |-> 0]

\* one call MPTasksInLoop.evaluate(S, EvalNum)
EvaluateInLoopBody(S) ==
  /\ pc = "inloop"
  /\ \E r \in {evaluateInLoopBody(MPTasksInLoop, S)} :
       /\ MPTasksInLoop' = r.TaskList
       /\ call' = [S |-> S, TaskList |-> MPTasksInLoop, ret |-> r.Complete]
  /\ UNCHANGED <<pc, Result, ObjectMRForRace, MPTasks, EvalNum, ToProcess, Complete,
                 Env, AccessToObjsMap,
                 DetachCtxToStackFrame, StackFrames>>

NextInLoopBody == \E S \in Spindles : EvaluateInLoopBody(S)

SpecInLoopBody == InitInLoopBody /\ [][NextInLoopBody]_vars

\* evaluate has been called
Evaluated == pc = "inloop" /\ call # NoCall

\* the incoming edges of spindle S whose source block lies outside every
\* loop that S is the header of
EdgesFromOutside(S) ==
  {e \in InEdges(S) : \A l \in Loops : LoopHeader(l) = S => ~LoopContains(l, e[2])}

\* C21: when the spindle evaluate was called on starts at the header of a
\* loop, its list after the call holds only what it held before and tasks
\* of the lists of predecessors whose edge comes from outside the loop: no
\* task arrives through an edge whose source block lies inside the loop.
C21_HeaderSkipsBackEdges ==
  (Evaluated /\ \E l \in Loops : LoopHeader(l) = call.S) =>
     MPTasksInLoop[call.S] \subseteq
       call.TaskList[call.S]
         \cup UNION {call.TaskList[e[1]] : e \in EdgesFromOutside(call.S)}

\* evaluate on the header of the outer loop while the list of the latch
\* spindle holds a task that the header's list lacks: the task stays out
C21_Witness ==
  /\ Evaluated
  /\ call.S = "h1"
  /\ call.TaskList["c2"] # {}
  /\ <<"c2", "c2">> \in InEdges("h1") \ EdgesFromOutside("h1")
  /\ MPTasksInLoop["h1"] = {}
  /\ call.ret

\* the tasks that the task lists held before the first call of evaluate
PlacedBeforeEvaluate == UNION {Env.TaskList[s] : s \in Spindles}

\* C25: evaluate of the loop-body variant changes the list of its spindle
\* only, and adds to it only tasks that the list of a predecessor spindle
\* in the same TaskList held at the call; so every task of every list was
\* in the TaskList before the first evaluate, and lists that start empty
\* stay empty however often evaluate runs.
C25_EvaluateOnlyCopies ==
  /\ pc = "inloop" =>
       /\ \A s \in Spindles : MPTasksInLoop[s] \subseteq PlacedBeforeEvaluate
       /\ PlacedBeforeEvaluate = {} => MPTasksInLoop = EmptyTaskList
  /\ Evaluated =>
       /\ MPTasksInLoop[call.S] \subseteq
            call.TaskList[call.S]
              \cup UNION {call.TaskList[e[1]] : e \in InEdges(call.S)}
       /\ \A s \in Spindles \ {call.S} : MPTasksInLoop[s] = call.TaskList[s]

\* a call that copied a task along an edge that is no back edge and
\* returned false, in a run that has brought the task to a third spindle
C25_Witness ==
  /\ Evaluated
  /\ ~call.ret
  /\ MPTasksInLoop[call.S] # call.TaskList[call.S]
  /\ Cardinality({s \in Spindles : MPTasksInLoop[s] # {}}) >= 3
  /\ Cardinality(PlacedBeforeEvaluate) = 1

---------------------------------------------------------------------------
(* checkDependence applied to one pair of located accesses.  The lists of  *)
(* the two loop-header spindles are what the maybe-parallel-tasks dataflow *)
(* hands over; which tasks they hold depends on where the procedure syncs  *)
(* the tasks spawned in the loops, so every content is taken.              *)

\* MPTasks.TaskList with the lists of the two header spindles drawn
HeaderTaskLists ==
  {[evaluateParallelState(markDefiningSpindle, FALSE)
      EXCEPT !["h1"] = x[1], !["h2"] = x[2]] :
     x \in (SUBSET {"T2", "T3"}) \X (SUBSET {"T2", "T3"})}

\* the pairs LocalRace hands to checkDependence: both located, neither
\* through the null pointer, one of them a write
DependencePairs ==
  {p \in Accesses \X Accesses :
     /\ HasLoc(p[1]) /\ HasLoc(p[2])
     /\ ~IsUndefinedNull(GetPtr(p[1])) /\ ~IsUndefinedNull(GetPtr(p[2]))
     /\ IsMod(p[1]) \/ IsMod(p[2])}

InitDependence ==
  /\ pc = "ready"
  /\ call = NoCall
  /\ Result = {}
  /\ ObjectMRForRace = <<>>
  /\ MPTasks \in HeaderTaskLists
  /\ MPTasksInLoop = EmptyTaskList
  /\ EvalNum = 0
  /\ ToProcess = <<>>
  /\ Complete = TRUE
  /\ Env = NoEnv
  /\ AccessToObjsMap = FinishedAccessToObjs
  /\ DetachCtxToStackFrame = <<>>
  /\ StackFrames = [F \in Functions |-> 0]

\* one call checkDependence(D, GA1, GA2)
CheckDependence(D, GA1, GA2, ord) ==
  /\ pc = "ready"
  /\ call' = [ga1 |-> GA1, ga2 |-> GA2, o |-> [dep |-> D, ord |-> ord],
              ret |-> checkDependence(D, GA1, GA2, ord)]
  /\ pc' = "checked"
  /\ UNCHANGED <<Result, ObjectMRForRace, MPTasks, MPTasksInLoop, EvalNum,
                 ToProcess, Complete, Env, AccessToObjsMap,
                 DetachCtxToStackFrame, StackFrames>>

NextDependence ==
  \E p \in DependencePairs, ord \in IterOrders :
    \E D \in Dependences(LoopDepth(getCommonLoop(Blk(p[1]), Blk(p[2])))) :
      CheckDependence(D, p[1], p[2], ord)

SpecDependence == InitDependence /\ [][NextDependence]_vars

\* the call reached the loop-level scan: a dependence, a common loop, and a
\* maximum depth to check that differs from the object-derived minimum
ReachesScan ==
  /\ pc = "checked"
  /\ call.o.dep.some
  /\ ~NoLoopEnclosesBoth
  /\ MaxDepth # ObjDepth

\* the loop of level d on the loop stack of the scan
ScanLoop(d) == AncestorAtDepth(TaskAdjustedLoop(call.ga1, call.ga2), d)

\* the levels, from the object-derived minimum to the maximum depth, at
\* which the list of the header spindle holds a task enclosing the second
\* access
ParallelLevels ==
  {d \in 1 .. MaxDepth :
     /\ d >= ObjDepth
     /\ \E MPT \in MPTasks[SpindleFor(LoopHeader(ScanLoop(d)))] :
          Encloses(MPT, Blk(call.ga2))}

\* at level II the dependence is scalar or has a direction other than equal
CarriedAt(II) ==
  \/ call.o.dep.lv[II].scalar
  \/ call.o.dep.lv[II].dir \ {"EQ"} # {}

\* C22: when the maximum depth differs from the object-derived minimum and
\* some level from that minimum on has a header spindle whose list holds a
\* task enclosing the second access, checkDependence reports a race if and
\* only if the dependence is scalar or has a direction other than equal at
\* some level from the outermost such level to the maximum depth.
C22_ScanFromFirstParallelLevel ==
  (ReachesScan /\ ParallelLevels # {}) =>
     (call.ret <=>
        \E II \in 1 .. MaxDepth :
          /\ \E d \in ParallelLevels : d <= II
          /\ CarriedAt(II))

\* a pair of depth 2 for which the scan stops at level 2: the dependence is
\* carried at level 1 only, and no race is reported
C22_Witness ==
  /\ ReachesScan
  /\ MaxDepth = 2
  /\ ParallelLevels = {2}
  /\ CarriedAt(1) /\ ~CarriedAt(2)
  /\ ~call.ret

\* C27: when no level from the object-derived minimum to the maximum depth
\* has a header spindle whose list holds a task enclosing the second
\* access, checkDependence reports no race, whatever the dependence is at
\* any level.
C27_NoParallelLevelNoRace ==
  (ReachesScan /\ ParallelLevels = {}) => ~call.ret

\* two accesses in different tasks with two levels to scan, none of them
\* parallel, and a dependence that is scalar or unequal at both
C27_Witness ==
  /\ ReachesScan
  /\ ParallelLevels = {}
  /\ ~SameTask
  /\ ObjDepth = 0 /\ MaxDepth >= 1
  /\ \A II \in 1 .. MaxDepth : CarriedAt(II)
  /\ ~call.ret

---------------------------------------------------------------------------
(* The computation of MinObjDepth in checkDependence, from the blocks of   *)
(* the two accesses and the object sets AccessToObjs holds for them.       *)

\* the blocks the two instructions are placed in
DepthBlocks == {"c2", "h2", "t3"}

\* the objects the sets are drawn from: stack allocations outside the
\* loops, in the outer and in the inner loop, a call whose result does not
\* alias, another call, another instruction, and an argument
DepthObjs == {"stk0", "stk1", "stk2", "heap", "ret", "ld", "argP"}

MaxObjsPerAccess == 2

\* the object sets AccessToObjs can hold for an access
DepthObjSets == {S \in SUBSET DepthObjs : Cardinality(S) <= MaxObjsPerAccess}

InitMinObjDepth ==
  /\ pc = "ready"
  /\ call = NoCall
  /\ Result = {}
  /\ ObjectMRForRace = <<>>
  /\ MPTasks = markDefiningSpindle
  /\ MPTasksInLoop = EmptyTaskList
  /\ EvalNum = 0
  /\ ToProcess = <<>>
  /\ Complete = TRUE
  /\ Env = NoEnv
  /\ AccessToObjsMap = FinishedAccessToObjs
  /\ DetachCtxToStackFrame = <<>>
  /\ StackFrames = [F \in Functions |-> 0]

\* checkDependence from its entry to the assertion on MinObjDepth, for two
\* accesses in blocks B1 and B2 with the object sets Objs1 and Objs2; the
\* function has returned before if no loop holds both blocks
ComputeMinObjDepth(B1, B2, Objs1, Objs2, ord) ==
  /\ pc = "ready"
  /\ LoopDepth(getCommonLoop(B1, B2)) # 0
  /\ call' = [b1 |-> B1, b2 |-> B2, objs1 |-> Objs1, objs2 |-> Objs2, ord |-> ord,
              MaxLoopDepthToCheck |-> LoopDepth(getCommonLoop(B1, B2)),
              MinObjDepth |->
                MinObjDepthFrom(getCommonLoop(B1, B2),
                                SharedUntilBreak(InOrder(Objs1, ord), Objs2),
                                SharedUntilBreak(InOrder(Objs2, ord), Objs1),
                                ord)]
  /\ pc' = "asserting"
  /\ UNCHANGED <<Result, ObjectMRForRace, MPTasks, MPTasksInLoop, EvalNum,
                 ToProcess, Complete, Env, AccessToObjsMap,
                 DetachCtxToStackFrame, StackFrames>>

NextMinObjDepth ==
  \E B1 \in DepthBlocks, B2 \in DepthBlocks :
    \E Objs1 \in DepthObjSets, Objs2 \in DepthObjSets, ord \in IterOrders :
      ComputeMinObjDepth(B1, B2, Objs1, Objs2, ord)

SpecMinObjDepth == InitMinObjDepth /\ [][NextMinObjDepth]_vars

\* a stack allocation or a call whose result is marked as not aliasing
IsFreshAllocation(o) ==
  \/ ObjKind(o) = "alloca"
  \/ ObjKind(o) = "call" /\ ReturnDoesNotAlias(o)

\* C23: the object-derived minimum depth is non-zero only if the two
\* accesses resolve to the same non-empty set of objects and every one of
\* them is a stack allocation or a call whose result does not alias.
C23_BoundOnlyForSharedAllocations ==
  (pc = "asserting" /\ call.MinObjDepth # 0) =>
     /\ call.objs1 = call.objs2
     /\ call.objs1 # {}
     /\ \A o \in call.objs1 : IsFreshAllocation(o)

\* C26: at the assertion the object-derived minimum depth is at most the
\* depth of the deepest loop common to the two accesses.
C26_AssertionHolds ==
  pc = "asserting" => call.MinObjDepth <= call.MaxLoopDepthToCheck

\* two accesses in the inner loop on a stack allocation of the outer loop
\* and a non-aliasing call result: the common-object loop is the outer loop
C26_Witness ==
  /\ pc = "asserting"
  /\ call.objs1 = {"stk1", "heap"} /\ call.objs2 = call.objs1
  /\ call.MaxLoopDepthToCheck = 2
  /\ call.MinObjDepth = 1

---------------------------------------------------------------------------
(* The loop body of checkForRacesHelper that turns one underlying object   *)
(* of one located access into race records.                                *)

\* the objects addAccess lets into AccessToObjs
ClassifiableObjs ==
  {o \in Objs :
     /\ ~IsNonPtrConst(o)
     /\ ~(ObjKind(o) = "global" /\ GlobalIsConstant(o))
     /\ ObjKind(o) # "function"}

\* one iteration of the loop over AccessToObjs[MemAccessInfo(GA)]
ClassifyObject(GA, Obj) ==
  /\ pc = "ready"
  /\ HasLoc(GA)
  /\ \E st \in {classifyObject([Result |-> Result, MR |-> ObjectMRForRace], GA, Obj)} :
       /\ Result' = st.Result
       /\ ObjectMRForRace' = st.MR
  /\ call' = [ga |-> GA, obj |-> Obj]
  /\ pc' = "classified"
  /\ UNCHANGED <<MPTasks, MPTasksInLoop, EvalNum, ToProcess, Complete, Env,
                 AccessToObjsMap,
                 DetachCtxToStackFrame, StackFrames>>

NextClassifyObject ==
  \E GA \in Accesses, Obj \in ClassifiableObjs : ClassifyObject(GA, Obj)

SpecClassifyObject == Init /\ [][NextClassifyObject]_vars

\* Result holds the opaque-race record of the classified access, without a
\* racer, and nothing else
OnlyOpaqueRecorded == Result = {[acc |-> call.ga, type |-> "Opaque", racer |-> NoAccess]}

\* Result holds a race-via-ancestor record of the classified access and no
\* record of another kind
OnlyAncestorRecorded ==
  /\ [acc |-> call.ga, type |-> "ViaAncestorMod", racer |-> NoAccess] \in Result
  /\ \A r \in Result :
       r.acc = call.ga /\ r.type \in {"ViaAncestorMod", "ViaAncestorRef"}

\* C24: for a located access and one of its objects the loop body records
\* nothing for a stack allocation and for the result of an allocation call
\* (allocation being assumed safe), an ancestor race for a global with
\* private or internal linkage, and an opaque race without racer for a
\* global of other linkage, a constant expression, and every object that is
\* none of these and no argument.
C24_RecordKindByObjectKind ==
  pc = "classified" =>
    CASE ObjKind(call.obj) = "alloca" -> NothingRecorded
      [] AssumeSafeMalloc /\ IsAllocFn(call.obj) -> NothingRecorded
      [] ObjKind(call.obj) = "global" /\ HasLocalLinkage(call.obj) -> OnlyAncestorRecorded
      [] ObjKind(call.obj) = "global" /\ ~HasLocalLinkage(call.obj) -> OnlyOpaqueRecorded
      [] ObjKind(call.obj) = "constexpr" -> OnlyOpaqueRecorded
      [] ObjKind(call.obj) = "arg" -> TRUE
      [] OTHER -> OnlyOpaqueRecorded

\* a write whose object is a call that is no allocation function: an opaque
\* race, and the object enters the summary with both flags
C24_Witness ==
  /\ pc = "classified"
  /\ call.obj = "ret"
  /\ IsMod(call.ga)
  /\ OnlyOpaqueRecorded
  /\ ObjectMRForRace = ("ret" :> {"Mod", "Ref"})

---------------------------------------------------------------------------
(* The object summary over a whole run of the analysis.                    *)

\* C29: in every state of a run of the analysis every object of the object
\* summary has the Mod flag (so Ref never stands without Mod), and no step
\* removes an object from the summary or a flag from an object.
C29_SummaryInvariant ==
  /\ [](\A p \in DOMAIN ObjectMRForRace : "Mod" \in ObjectMRForRace[p])
  /\ [][\A p \in DOMAIN ObjectMRForRace :
          /\ p \in DOMAIN ObjectMRForRace'
          /\ ObjectMRForRace[p] \subseteq ObjectMRForRace'[p]]_vars

\* a finished run with records of every kind, in which the summary holds an
\* object with Mod alone and an object with Mod and Ref
C29_Witness ==
  /\ pc = "done"
  /\ \A t \in RaceTypes : \E r \in Result : r.type = t
  /\ \E p \in DOMAIN ObjectMRForRace : ObjectMRForRace[p] = {"Mod"}
  /\ \E p \in DOMAIN ObjectMRForRace : ObjectMRForRace[p] = {"Mod", "Ref"}
  /\ ArgumentPtrs \subseteq DOMAIN ObjectMRForRace

---------------------------------------------------------------------------
(* Stack frames of the Lambda ABI lowering (LambdaABI.cpp).

   DetachCtxToStackFrame maps a function to its __rts_stack_frame alloca.
   The map is read in two ways: count(&F) asks whether F has an entry, and
   operator[] returns the entry's value, entering a null value for a key
   that had no entry, as the operator[] of the LLVM and standard maps
   does.  StackFrames counts the allocas CreateStackFrame has put into
   each function. *)

\* the null Value* a default-constructed map entry holds
NullValue == "nullptr"

\* the alloca CreateStackFrame inserts as the n-th stack frame of F
StackFrame(F, n) == <<"__rts_sf", F, n>>

\* DetachCtxToStackFrame[&F]: the value of the entry, and the map after
\* operator[] has entered a null value for a missing key
Subscript(map, F) ==
  LET m == IF F \in DOMAIN map THEN map ELSE (F :> NullValue) @@ map
  IN  [val |-> m[F], map |-> m]

\* CreateStackFrame (348-361): a new alloca in the entry block of F
CreateStackFrame(frames, F) ==
  [SF     |-> StackFrame(F, frames[F] + 1),
   frames |-> [frames EXCEPT ![F] = @ + 1]]

\* GetOrCreateStackFrame (363-371)
GetOrCreateStackFrame(map, frames, F) ==
  IF F \in DOMAIN map
  THEN [ret |-> Subscript(map, F).val, map |-> map, frames |-> frames]
  ELSE LET c == CreateStackFrame(frames, F)
       IN  [ret |-> c.SF, map |-> [Subscript(map, F).map EXCEPT ![F] = c.SF],
            frames |-> c.frames]

\* lowerSync (462-471 and the replacement of the sync that follows): the
\* sync is left alone when the subscript yields null
lowerSync(map, frames, F) ==
  LET s == Subscript(map, F)
  IN  IF s.val = NullValue
      THEN [lowered |-> FALSE, ret |-> NullValue, map |-> s.map,
            frames |-> frames]
      ELSE LET g == GetOrCreateStackFrame(s.map, frames, F)
           IN  [lowered |-> TRUE, ret |-> g.ret, map |-> g.map,
                frames |-> g.frames]

\* what follows the use of a null frame: the assertion (or the cast<>)
\* stops an assertion-enabled build, any other build dereferences null
NullFrameOutcomes == {"aborted", "undefined"}

\* the lowering of a module starts with no frame in any function; the
\* race analysis has no part in it
InitLambdaABI ==
  /\ pc = "lowering"
  /\ call = NoCall
  /\ Result = {}
  /\ ObjectMRForRace = <<>>
  /\ MPTasks = EmptyTaskList
  /\ MPTasksInLoop = EmptyTaskList
  /\ EvalNum = 0
  /\ ToProcess = <<>>
  /\ Complete = TRUE
  /\ Env = NoEnv
  /\ AccessToObjsMap = <<>>
  /\ DetachCtxToStackFrame = <<>>
  /\ StackFrames = [F \in Functions |-> 0]

\* lowerSync(SI) for a sync of function F
LowerSync(F) ==
  /\ pc = "lowering"
  /\ LET r == lowerSync(DetachCtxToStackFrame, StackFrames, F)
     IN  /\ DetachCtxToStackFrame' = r.map
         /\ StackFrames' = r.frames
         /\ call' = [fn |-> "lowerSync", F |-> F, ret |-> r.ret,
                     lowered |-> r.lowered,
                     hadFrame |-> F \in DOMAIN DetachCtxToStackFrame]
  /\ UNCHANGED <<pc, Result, ObjectMRForRace, MPTasks, MPTasksInLoop, EvalNum,
                 ToProcess, Complete, Env, AccessToObjsMap>>

\* InsertStackFramePush(F) (376-400), the frame request of
\* preProcessRootSpawner and preProcessOutlinedTask
InsertStackFramePush(F) ==
  /\ pc = "lowering"
  /\ LET r == GetOrCreateStackFrame(DetachCtxToStackFrame, StackFrames, F)
     IN  /\ DetachCtxToStackFrame' = r.map
         /\ StackFrames' = r.frames
         /\ call' = [fn |-> "GetOrCreateStackFrame", F |-> F, ret |-> r.ret,
                     lowered |-> FALSE,
                     hadFrame |-> F \in DOMAIN DetachCtxToStackFrame]
         /\ IF r.ret = NullValue
            THEN pc' \in NullFrameOutcomes
            ELSE pc' = pc
  /\ UNCHANGED <<Result, ObjectMRForRace, MPTasks, MPTasksInLoop, EvalNum,
                 ToProcess, Complete, Env, AccessToObjsMap>>

\* processSubTaskCall(TOI) (540-574) for a replacement call in function F
ProcessSubTaskCall(F) ==
  /\ pc = "lowering"
  /\ LET s == Subscript(DetachCtxToStackFrame, F)
     IN  /\ DetachCtxToStackFrame' = s.map
         /\ call' = [fn |-> "processSubTaskCall", F |-> F, ret |-> s.val,
                     lowered |-> FALSE,
                     hadFrame |-> F \in DOMAIN DetachCtxToStackFrame]
         /\ IF s.val = NullValue
            THEN pc' \in NullFrameOutcomes
            ELSE pc' = pc
  /\ UNCHANGED <<Result, ObjectMRForRace, MPTasks, MPTasksInLoop, EvalNum,
                 ToProcess, Complete, Env, AccessToObjsMap, StackFrames>>

NextLambdaABI ==
  \E F \in Functions :
     \/ LowerSync(F)
     \/ InsertStackFramePush(F)
     \/ ProcessSubTaskCall(F)

SpecLambdaABI == InitLambdaABI /\ [][NextLambdaABI]_vars

\* the last call was a frame request
FrameRequested ==
  /\ pc \in {"lowering"} \cup NullFrameOutcomes
  /\ call # NoCall
  /\ call.fn = "GetOrCreateStackFrame"

\* C30: in every order of lowerSync, processSubTaskCall and frame requests,
\* a frame request returns a non-null stack frame, no function gets more
\* than one frame, and a lowerSync on a function without a frame leaves
\* the sync untouched
C30_FrameRequestNeverNull ==
  /\ FrameRequested => call.ret # NullValue
  /\ \A F \in Functions : StackFrames[F] <= 1
  /\ (pc = "lowering" /\ call # NoCall /\ call.fn = "lowerSync"
        /\ ~call.hadFrame) => ~call.lowered

=============================================================================
